---- MODULE Spec2Model ----
(***************************************************************************)
(* A model of the storage runtime: the LRU-K replacer with weighted        *)
(* accesses (src/buffer/lru_k_replacer.cpp), the buffer pool manager       *)
(* (src/buffer/buffer_pool_manager.cpp) on top of it, the disk scheduler   *)
(* (src/storage/disk/disk_scheduler.cpp), the page guards                  *)
(* (src/storage/page/page_guard.cpp), the directory page of the extendible *)
(* hash table (src/storage/page/extendible_htable_directory_page.cpp) and  *)
(* the persistent trie (src/primer/trie.cpp).                              *)
(*                                                                         *)
(* The specifications share the variables; each leaves the variables of    *)
(* the components it does not drive at their initial value:                *)
(*   Spec          the buffer pool manager driven through its public API;  *)
(*   SpecData      Spec, with callers that also write into pinned pages;   *)
(*   SpecReplacer  the replacer alone, driven through its public API,      *)
(*                 failing calls included;                                 *)
(*   SpecEvict     the replacer alone with longer access histories, driven *)
(*                 by the calls that change its state;                     *)
(*   SpecSched     the disk scheduler: its workers, a caller that          *)
(*                 schedules requests and then destroys the scheduler;     *)
(*   SpecGuard     one thread that pins pages of the buffer pool, wraps    *)
(*                 them in page guards and moves, upgrades, drops and      *)
(*                 destroys the guards;                                    *)
(*   SpecGuardAssign  SpecGuard with move-assignment between guards;       *)
(*   SpecWriters   the threads of MultiWriterTest, each appending a mark   *)
(*                 to one page under a WritePageGuard;                     *)
(*   SpecCalls     threads calling the pool concurrently under its mutex,  *)
(*                 with the page latches and the scheduler's workers;      *)
(*   SpecDir       the directory page of the extendible hash table;        *)
(*   SpecTrie      the copy-on-write trie, as the value of its root;       *)
(*   SpecTrieVersions  the nodes of the trie as objects shared by the      *)
(*                 versions that Put returns.                              *)
(***************************************************************************)
EXTENDS Integers, Sequences, FiniteSets, TLC

(***************************************************************************)
(* Bounds of the model.                                                    *)
(***************************************************************************)
\* pool_size of the buffer pool under Spec
PoolSize == 2
\* num_frames of the replacer under SpecReplacer
NumFrames == 2
\* k of the replacer (both specifications)
ReplacerK == 2
\* page ids handed out by AllocatePage are capped at MaxPageId
MaxPageId == 2
\* current_timestamp_ is capped under Spec and SpecData
MaxTimestamp == 4
\* current_timestamp_ is capped under SpecReplacer
MaxReplacerTimestamp == 3
\* current_timestamp_ is capped under SpecEvict
MaxEvictTimestamp == 5
\* page contents are the values 0..MaxData, 0 being the zeroed buffer
MaxData == 1
\* num_workers of the disk scheduler
NumWorkers == 2
\* the requests a caller passes to Schedule are numbered 1..MaxRequests
MaxRequests == 2
\* the guard objects a caller creates under SpecGuard are numbered 1..MaxGuards
MaxGuards == 2
\* current_timestamp_ is capped under SpecGuard
MaxGuardTimestamp == 2
\* num_threads of MultiWriterTest; every thread fetches once, so
\* NumThreads + 1 <= MaxTimestamp
NumThreads == 3
\* threads calling the pool under SpecCalls; each schedules at most one disk
\* request, creates at most one page and records at most one access, so
\* NumCallers <= MaxRequests, NumCallers <= MaxPageId and
\* NumCallers + 1 < MaxTimestamp
NumCallers == 2
\* SetLocalDepth is called with 0..MaxLocalDepth and IncrLocalDepth stops
\* there (a local depth that wrapped to 255 is incremented back to 0)
MaxLocalDepth == 2
\* values put into the trie are 1..MaxValue
MaxValue == 2
\* Put calls under SpecTrieVersions, each giving a new version of the trie
MaxPuts == 3
\* max_depth handed to ExtendibleHTableDirectoryPage::Init; the arrays of
\* the page have 2^DirMaxDepth entries
DirMaxDepth == 2

(***************************************************************************)
(* Program constants.                                                      *)
(***************************************************************************)
\* std::numeric_limits<size_t>::max(): larger than every distance the model reaches
INF_TIMESTAMP == 2147483647

INVALID_PAGE_ID == -1

AccessTypes == {"Unknown", "Lookup", "Scan", "Index"}

\* The requests a caller schedules under SpecSched: a write of page 0 or a
\* read of page 1.
SchedRequests == {[is_write |-> TRUE, page_id |-> 0], [is_write |-> FALSE, page_id |-> 1]}

\* The frames of the replacer under SpecEvict.  Evict picks a minimum or a
\* maximum over the evictable nodes, which two nodes decide pairwise; the
\* accesses go into longer histories instead.
EvictFrames == {0, 1}

VARIABLES
  replacer_,      \* LRUKReplacer: node_store_, curr_size_, current_timestamp_, replacer_size_, k_
  pages_,         \* BufferPoolManager::pages_: frame -> page_id_, pin_count_, is_dirty_, data_
  page_table_,    \* BufferPoolManager::page_table_: page id -> frame
  free_list_,     \* BufferPoolManager::free_list_
  next_page_id_,  \* BufferPoolManager::next_page_id_
  disk,           \* the DiskManager's content: page id -> data
  call,           \* the last call made and its outcome
  request_queue_, \* DiskScheduler::request_queue_: the items of the channel, oldest first
  worker_threads_,\* DiskScheduler::worker_threads_: worker -> where it is in StartWorkerThread
  promises,       \* request id -> what has happened to the request and its callback_
  scheduler,      \* the thread that owns the DiskScheduler: where it is
  guards,         \* page guard objects: guard -> kind, bpm_, page_, is_dirty_, lifetime
  latch,          \* Page::rwlatch_ of every frame: readers and writer holding it
  guard_call,     \* the last operation on a guard: what it called, whether it faulted
  threads,        \* the writer threads of MultiWriterTest: where each is
  directory,      \* ExtendibleHTableDirectoryPage: max_depth_, global_depth_, the two arrays
  trie            \* Trie: the root of the current version

bpmVars == <<pages_, page_table_, free_list_, next_page_id_, disk>>

\* The replacer, the buffer pool manager and the record of the last call.
poolVars == <<replacer_, bpmVars, call>>

\* The disk scheduler and the thread that owns it.
schedVars == <<request_queue_, worker_threads_, promises, scheduler>>

\* The page guards, the page latches and the threads that use them.
guardVars == <<guards, latch, guard_call, threads>>

dirVars == <<directory>>

trieVars == <<trie>>

\* The variables the specifications of the replacer and of the buffer pool
\* manager leave alone.
extVars == <<schedVars, guardVars, dirVars, trieVars>>

vars == <<poolVars, extVars>>

\* The variables each of the other specifications leaves alone.
schedRest == <<poolVars, guardVars, dirVars, trieVars>>

guardRest == <<schedVars, dirVars, trieVars>>

dirRest == <<poolVars, schedVars, guardVars, trieVars>>

trieRest == <<poolVars, schedVars, guardVars, dirVars>>

\* The components a specification does not drive.
SchedOff ==
  /\ request_queue_ = <<>>
  /\ worker_threads_ = <<>>
  /\ promises = <<>>
  /\ scheduler = [pc |-> "off"]

GuardsOff ==
  /\ guards = <<>>
  /\ latch = <<>>
  /\ guard_call = [op |-> "off"]
  /\ threads = <<>>

DirOff == directory = <<>>

TrieOff == trie = <<>>

ExtOff ==
  /\ SchedOff
  /\ GuardsOff
  /\ DirOff
  /\ TrieOff

(***************************************************************************)
(* Helpers on functions with a varying domain (std::unordered_map).        *)
(***************************************************************************)
MapErase(m, key) == [x \in DOMAIN m \ {key} |-> m[x]]

MapPut(m, key, val) == [x \in DOMAIN m \cup {key} |-> IF x = key THEN val ELSE m[x]]

(***************************************************************************)
(* LRUKNode                                                                *)
(***************************************************************************)
LRUKNode(fid, k) ==
  [fid_ |-> fid, k_ |-> k, is_evictable_ |-> FALSE, history_ |-> <<>>, total_weight_ |-> 0]

GetAccessWeight(type) ==
  CASE type = "Unknown" -> 1
    [] type = "Index" -> 1
    [] type = "Scan" -> 2
    [] type = "Lookup" -> 3
    [] OTHER -> 1

LRUKNode_RecordAccess(node, timestamp, type) ==
  LET full == Len(node.history_) = node.k_
      tw0 == IF full THEN node.total_weight_ - Head(node.history_).weight_
                     ELSE node.total_weight_
      h0 == IF full THEN Tail(node.history_) ELSE node.history_
      weight == GetAccessWeight(type)
  IN [node EXCEPT !.total_weight_ = tw0 + weight,
                  !.history_ = Append(h0, [timestamp_ |-> timestamp, weight_ |-> weight])]

LRUKNode_GetEarliestTimestamp(node) == Head(node.history_).timestamp_

LRUKNode_GetKBackDist(node, current_timestamp) ==
  IF Len(node.history_) < node.k_
    THEN INF_TIMESTAMP
    ELSE current_timestamp - Head(node.history_).timestamp_

\* Mutant of LRUKNode_GetWeightedKBackDist: the distance without the weight.
LRUKNode_GetWeightedKBackDist_Unweighted(node, current_timestamp) ==
  LRUKNode_GetKBackDist(node, current_timestamp)

LRUKNode_GetWeightedKBackDist(node, current_timestamp) ==
  IF Len(node.history_) < node.k_
    THEN INF_TIMESTAMP
    ELSE (node.total_weight_ * LRUKNode_GetKBackDist(node, current_timestamp)) \div node.k_

(***************************************************************************)
(* LRUKReplacer.  Each operation is a function of the replacer's state;    *)
(* the ones that can fail return the outcome next to the new state.        *)
(***************************************************************************)
LRUKReplacer(num_frames, k) ==
  [node_store_ |-> <<>>, curr_size_ |-> 0, current_timestamp_ |-> 0,
   replacer_size_ |-> num_frames, k_ |-> k]

\* Mutant of EvictCandidates: the loop does not skip the non-evictable nodes.
EvictCandidates_All(r) == DOMAIN r.node_store_

\* The evictable nodes the loop of Evict looks at.
EvictCandidates(r) == {f \in DOMAIN r.node_store_ : r.node_store_[f].is_evictable_}

\* The nodes the loop of Evict puts in inf_nodes.
EvictInfNodes(r) ==
  {f \in EvictCandidates(r) :
     LRUKNode_GetWeightedKBackDist(r.node_store_[f], r.current_timestamp_) = INF_TIMESTAMP}

\* The frames max_k_dist_node can be when the loop of Evict ends.  The loop
\* keeps the first node, in the iteration order of the unordered node store,
\* whose distance is strictly greater than every one before it: any node of
\* maximal distance, when that distance is above the initial max_k_dist = 0.
EvictMaxKDistNodes(r) ==
  LET fin == EvictCandidates(r) \ EvictInfNodes(r)
      d(f) == LRUKNode_GetWeightedKBackDist(r.node_store_[f], r.current_timestamp_)
  IN {f \in fin : d(f) > 0 /\ \A g \in fin : d(g) <= d(f)}

\* Mutant of EvictMinInfNodes: the comparison is reversed.
EvictMinInfNodes_Latest(r) ==
  {f \in EvictInfNodes(r) :
     \A g \in EvictInfNodes(r) :
        LRUKNode_GetEarliestTimestamp(r.node_store_[f])
          >= LRUKNode_GetEarliestTimestamp(r.node_store_[g])}

\* std::min_element over inf_nodes by GetEarliestTimestamp.
EvictMinInfNodes(r) ==
  {f \in EvictInfNodes(r) :
     \A g \in EvictInfNodes(r) :
        LRUKNode_GetEarliestTimestamp(r.node_store_[f])
          <= LRUKNode_GetEarliestTimestamp(r.node_store_[g])}

\* The frames Evict can return in state r; empty when Evict returns false.
LRUKReplacer_EvictVictims(r) ==
  IF DOMAIN r.node_store_ = {} \/ r.curr_size_ = 0
    THEN {}
    ELSE IF EvictInfNodes(r) # {} THEN EvictMinInfNodes(r) ELSE EvictMaxKDistNodes(r)

\* The state Evict leaves when it returns frame_id.
LRUKReplacer_Evict(r, frame_id) ==
  [r EXCEPT !.node_store_ = MapErase(r.node_store_, frame_id),
            !.curr_size_ = r.curr_size_ - 1]

\* Mutant of LRUKReplacer_RecordAccess: the range check is off by one.
LRUKReplacer_RecordAccess_OffByOne(r, frame_id, access_type) ==
  IF frame_id > r.replacer_size_
    THEN [state |-> r, ret |-> "invalid_argument"]
    ELSE LET node == IF frame_id \notin DOMAIN r.node_store_
                       THEN LRUKNode(frame_id, r.k_)
                       ELSE r.node_store_[frame_id]
             rec == LRUKNode_RecordAccess(node, r.current_timestamp_, access_type)
         IN [state |-> [r EXCEPT !.node_store_ = MapPut(r.node_store_, frame_id, rec),
                                 !.current_timestamp_ = r.current_timestamp_ + 1],
             ret |-> "ok"]

LRUKReplacer_RecordAccess(r, frame_id, access_type) ==
  IF frame_id >= r.replacer_size_
    THEN [state |-> r, ret |-> "invalid_argument"]
    ELSE LET node == IF frame_id \notin DOMAIN r.node_store_
                       THEN LRUKNode(frame_id, r.k_)
                       ELSE r.node_store_[frame_id]
             rec == LRUKNode_RecordAccess(node, r.current_timestamp_, access_type)
         IN [state |-> [r EXCEPT !.node_store_ = MapPut(r.node_store_, frame_id, rec),
                                 !.current_timestamp_ = r.current_timestamp_ + 1],
             ret |-> "ok"]

\* Mutant of LRUKReplacer_SetEvictable: curr_size_ is raised without looking
\* at the flag the node has.
LRUKReplacer_SetEvictable_AlwaysCounts(r, frame_id, set_evictable) ==
  IF frame_id \notin DOMAIN r.node_store_
    THEN [state |-> r, ret |-> "invalid_argument"]
    ELSE IF set_evictable
      THEN [state |-> [r EXCEPT !.node_store_[frame_id].is_evictable_ = TRUE,
                                !.curr_size_ = r.curr_size_ + 1],
            ret |-> "ok"]
      ELSE IF r.node_store_[frame_id].is_evictable_
        THEN [state |-> [r EXCEPT !.node_store_[frame_id].is_evictable_ = FALSE,
                                  !.curr_size_ = r.curr_size_ - 1],
              ret |-> "ok"]
        ELSE [state |-> r, ret |-> "ok"]

LRUKReplacer_SetEvictable(r, frame_id, set_evictable) ==
  IF frame_id \notin DOMAIN r.node_store_
    THEN [state |-> r, ret |-> "invalid_argument"]
    ELSE LET node == r.node_store_[frame_id] IN
         IF set_evictable /\ ~node.is_evictable_
           THEN [state |-> [r EXCEPT !.node_store_[frame_id].is_evictable_ = TRUE,
                                     !.curr_size_ = r.curr_size_ + 1],
                 ret |-> "ok"]
           ELSE IF ~set_evictable /\ node.is_evictable_
             THEN [state |-> [r EXCEPT !.node_store_[frame_id].is_evictable_ = FALSE,
                                       !.curr_size_ = r.curr_size_ - 1],
                   ret |-> "ok"]
             ELSE [state |-> r, ret |-> "ok"]

LRUKReplacer_Remove(r, frame_id) ==
  IF frame_id \notin DOMAIN r.node_store_
    THEN [state |-> r, ret |-> "ok"]
    ELSE IF ~r.node_store_[frame_id].is_evictable_
      THEN [state |-> r, ret |-> "invalid_argument"]
      ELSE [state |-> [r EXCEPT !.node_store_ = MapErase(r.node_store_, frame_id),
                                !.curr_size_ = r.curr_size_ - 1],
            ret |-> "ok"]

LRUKReplacer_Size(r) == r.curr_size_

(***************************************************************************)
(* The record of the last call: the operation, its arguments, what it      *)
(* returned and, for a call of the pool that took a victim from the        *)
(* replacer, what the victim's frame held when it was taken.               *)
(***************************************************************************)
NoVictim ==
  [frame |-> -1, page_id |-> INVALID_PAGE_ID, is_dirty |-> FALSE, data |-> 0, pin_count |-> 0]

Call(op, arg, flag, ret, frame, victim) ==
  [op |-> op, arg |-> arg, flag |-> flag, type |-> "Unknown", ret |-> ret, frame |-> frame,
   victim |-> victim]

NoCall == Call("none", -1, FALSE, "none", -1, NoVictim)

(***************************************************************************)
(* BufferPoolManager.  Every public operation runs under latch_, so each   *)
(* is one atomic step.  A disk request is scheduled and awaited inside the *)
(* operation (future.get() under latch_), so the DiskManager's read or     *)
(* write is part of the step.                                              *)
(***************************************************************************)
Frames == 0..(PoolSize - 1)

PageIds == 0..MaxPageId

EmptyPage == [page_id_ |-> INVALID_PAGE_ID, pin_count_ |-> 0, is_dirty_ |-> FALSE, data_ |-> 0]

ResetPageMetaInFrame(pgs, frame_id) ==
  [pgs EXCEPT ![frame_id].is_dirty_ = FALSE,
              ![frame_id].page_id_ = INVALID_PAGE_ID,
              ![frame_id].pin_count_ = 0]

\* Mutant of ResetMemory: the buffer is left as it is.
ResetMemory_Skipped(pgs, frame_id) == pgs

\* Page::ResetMemory
ResetMemory(pgs, frame_id) == [pgs EXCEPT ![frame_id].data_ = 0]

\* WritePageToDisk on page table pt, frames pgs and disk content dsk.
WritePageToDisk(pt, pgs, dsk, page_id) ==
  IF page_id \notin DOMAIN pt
    THEN [pages |-> pgs, disk |-> dsk, ret |-> FALSE]
    ELSE LET fid == pt[page_id] IN
         [pages |-> [pgs EXCEPT ![fid].is_dirty_ = FALSE],
          disk |-> [dsk EXCEPT ![page_id] = pgs[fid].data_],
          ret |-> TRUE]

\* What the frame holds when it is taken as a victim.
VictimOf(frame_id) ==
  [frame |-> frame_id, page_id |-> pages_[frame_id].page_id_,
   is_dirty |-> pages_[frame_id].is_dirty_, data |-> pages_[frame_id].data_,
   pin_count |-> pages_[frame_id].pin_count_]

\* replacer_->RecordAccess(frame); replacer_->SetEvictable(frame, false)
RecordAndPin(r, frame_id) ==
  LRUKReplacer_SetEvictable(LRUKReplacer_RecordAccess(r, frame_id, "Unknown").state,
                            frame_id, FALSE).state

\* The buffer pool manager after construction.
InitBufferPool ==
  /\ replacer_ = LRUKReplacer(PoolSize, ReplacerK)
  /\ pages_ = [f \in Frames |-> EmptyPage]
  /\ page_table_ = <<>>
  /\ free_list_ = [i \in 1..PoolSize |-> i - 1]
  /\ next_page_id_ = 0
  /\ disk = [p \in PageIds |-> 0]
  /\ call = NoCall

Init ==
  /\ InitBufferPool
  /\ ExtOff

\* Mutant of NoFrameAvailable: the replacer is not asked.
NoFrameAvailable_FreeListOnly == free_list_ = <<>>

\* NewPage and FetchPage on a miss return nullptr under this condition.
NoFrameAvailable == free_list_ = <<>> /\ LRUKReplacer_Size(replacer_) = 0

NewPageNull ==
  /\ NoFrameAvailable
  /\ call' = Call("NewPage", -1, FALSE, "nullptr", -1, NoVictim)
  /\ UNCHANGED <<replacer_, bpmVars>>

\* NewPage with the frame taken from the front of the free list.
NewPageFree ==
  /\ free_list_ # <<>>
  /\ next_page_id_ <= MaxPageId
  /\ replacer_.current_timestamp_ < MaxTimestamp
  /\ LET replacement_frame == Head(free_list_)
         page_id == next_page_id_
         pgs1 == ResetPageMetaInFrame(pages_, replacement_frame)
         pgs2 == ResetMemory([pgs1 EXCEPT ![replacement_frame].page_id_ = page_id],
                             replacement_frame)
     IN /\ free_list_' = Tail(free_list_)
        /\ next_page_id_' = next_page_id_ + 1
        /\ page_table_' = MapPut(page_table_, page_id, replacement_frame)
        /\ replacer_' = RecordAndPin(replacer_, replacement_frame)
        /\ pages_' = [pgs2 EXCEPT ![replacement_frame].pin_count_ = @ + 1]
        /\ disk' = disk
        /\ call' = Call("NewPage", -1, FALSE, "page", replacement_frame, NoVictim)

\* NewPage with the frame taken from the replacer.
NewPageEvict ==
  /\ free_list_ = <<>>
  /\ LRUKReplacer_Size(replacer_) # 0
  /\ next_page_id_ <= MaxPageId
  /\ replacer_.current_timestamp_ < MaxTimestamp
  /\ \E replacement_frame \in LRUKReplacer_EvictVictims(replacer_) :
       LET old_page_id == pages_[replacement_frame].page_id_
           w == IF pages_[replacement_frame].is_dirty_
                  THEN WritePageToDisk(page_table_, pages_, disk, old_page_id)
                  ELSE [pages |-> pages_, disk |-> disk, ret |-> FALSE]
           pt1 == MapErase(page_table_, old_page_id)
           page_id == next_page_id_
           pgs1 == ResetPageMetaInFrame(w.pages, replacement_frame)
           pgs2 == ResetMemory([pgs1 EXCEPT ![replacement_frame].page_id_ = page_id],
                               replacement_frame)
       IN /\ free_list_' = free_list_
          /\ next_page_id_' = next_page_id_ + 1
          /\ page_table_' = MapPut(pt1, page_id, replacement_frame)
          /\ replacer_' = RecordAndPin(LRUKReplacer_Evict(replacer_, replacement_frame),
                                       replacement_frame)
          /\ pages_' = [pgs2 EXCEPT ![replacement_frame].pin_count_ = @ + 1]
          /\ disk' = w.disk
          /\ call' = Call("NewPage", -1, FALSE, "page", replacement_frame,
                          VictimOf(replacement_frame))

FetchPageHit(page_id) ==
  /\ page_id \in DOMAIN page_table_
  /\ replacer_.current_timestamp_ < MaxTimestamp
  /\ LET fid == page_table_[page_id] IN
       /\ pages_' = [pages_ EXCEPT ![fid].pin_count_ = @ + 1]
       /\ replacer_' = RecordAndPin(replacer_, fid)
       /\ call' = Call("FetchPage", page_id, FALSE, "page", fid, NoVictim)
  /\ UNCHANGED <<page_table_, free_list_, next_page_id_, disk>>

FetchPageNull(page_id) ==
  /\ page_id \notin DOMAIN page_table_
  /\ NoFrameAvailable
  /\ call' = Call("FetchPage", page_id, FALSE, "nullptr", -1, NoVictim)
  /\ UNCHANGED <<replacer_, bpmVars>>

\* The tail of FetchPage on a miss, once replacement_frame is chosen and the
\* page table is pt1: write the frame out if it is dirty, reset it, install
\* page_id and read the page from disk.
FetchPageInstall(page_id, replacement_frame, pt1, r1, victim) ==
  LET w == IF pages_[replacement_frame].is_dirty_
             THEN WritePageToDisk(pt1, pages_, disk, pages_[replacement_frame].page_id_)
             ELSE [pages |-> pages_, disk |-> disk, ret |-> FALSE]
      pgs1 == ResetPageMetaInFrame(w.pages, replacement_frame)
      pgs2 == [pgs1 EXCEPT ![replacement_frame].page_id_ = page_id,
                           ![replacement_frame].data_ = w.disk[page_id]]
  IN /\ page_table_' = MapPut(pt1, page_id, replacement_frame)
     /\ pages_' = [pgs2 EXCEPT ![replacement_frame].pin_count_ = @ + 1]
     /\ replacer_' = RecordAndPin(r1, replacement_frame)
     /\ disk' = w.disk
     /\ next_page_id_' = next_page_id_
     /\ call' = Call("FetchPage", page_id, FALSE, "page", replacement_frame, victim)

FetchPageMissFree(page_id) ==
  /\ page_id \notin DOMAIN page_table_
  /\ free_list_ # <<>>
  /\ replacer_.current_timestamp_ < MaxTimestamp
  /\ free_list_' = Tail(free_list_)
  /\ FetchPageInstall(page_id, Head(free_list_), page_table_, replacer_, NoVictim)

FetchPageMissEvict(page_id) ==
  /\ page_id \notin DOMAIN page_table_
  /\ free_list_ = <<>>
  /\ LRUKReplacer_Size(replacer_) # 0
  /\ replacer_.current_timestamp_ < MaxTimestamp
  /\ free_list_' = free_list_
  /\ \E replacement_frame \in LRUKReplacer_EvictVictims(replacer_) :
       FetchPageInstall(page_id, replacement_frame,
                        MapErase(page_table_, pages_[replacement_frame].page_id_),
                        LRUKReplacer_Evict(replacer_, replacement_frame),
                        VictimOf(replacement_frame))

\* Mutant of UnpinPage: the pin count is not compared with 0 first.
UnpinPage_NoZeroCheck(page_id, is_dirty) ==
  IF page_id \notin DOMAIN page_table_
    THEN /\ call' = Call("UnpinPage", page_id, is_dirty, "false", -1, NoVictim)
         /\ UNCHANGED <<replacer_, bpmVars>>
    ELSE LET fid == page_table_[page_id]
             pgs1 == [pages_ EXCEPT ![fid].pin_count_ = @ - 1]
             pgs2 == IF ~pgs1[fid].is_dirty_ /\ is_dirty
                       THEN [pgs1 EXCEPT ![fid].is_dirty_ = TRUE]
                       ELSE pgs1
         IN /\ pages_' = pgs2
            /\ replacer_' = IF pgs2[fid].pin_count_ = 0
                              THEN LRUKReplacer_SetEvictable(replacer_, fid, TRUE).state
                              ELSE replacer_
            /\ call' = Call("UnpinPage", page_id, is_dirty, "true", fid, NoVictim)
            /\ UNCHANGED <<page_table_, free_list_, next_page_id_, disk>>

UnpinPage(page_id, is_dirty) ==
  IF page_id \notin DOMAIN page_table_ \/ pages_[page_table_[page_id]].pin_count_ = 0
    THEN /\ call' = Call("UnpinPage", page_id, is_dirty, "false", -1, NoVictim)
         /\ UNCHANGED <<replacer_, bpmVars>>
    ELSE LET fid == page_table_[page_id]
             pgs1 == [pages_ EXCEPT ![fid].pin_count_ = @ - 1]
             pgs2 == IF ~pgs1[fid].is_dirty_ /\ is_dirty
                       THEN [pgs1 EXCEPT ![fid].is_dirty_ = TRUE]
                       ELSE pgs1
         IN /\ pages_' = pgs2
            /\ replacer_' = IF pgs2[fid].pin_count_ = 0
                              THEN LRUKReplacer_SetEvictable(replacer_, fid, TRUE).state
                              ELSE replacer_
            /\ call' = Call("UnpinPage", page_id, is_dirty, "true", fid, NoVictim)
            /\ UNCHANGED <<page_table_, free_list_, next_page_id_, disk>>

FlushPage(page_id) ==
  LET w == WritePageToDisk(page_table_, pages_, disk, page_id) IN
  /\ pages_' = w.pages
  /\ disk' = w.disk
  /\ call' = Call("FlushPage", page_id, FALSE, IF w.ret THEN "true" ELSE "false", -1, NoVictim)
  /\ UNCHANGED <<replacer_, page_table_, free_list_, next_page_id_>>

\* WritePageToDisk for every entry of the page table; each entry writes its
\* own page and frame, so the iteration order does not show in the result.
FlushAllPages ==
  /\ pages_' = [f \in Frames |->
                  IF \E p \in DOMAIN page_table_ : page_table_[p] = f
                    THEN [pages_[f] EXCEPT !.is_dirty_ = FALSE]
                    ELSE pages_[f]]
  /\ disk' = [p \in PageIds |->
                IF p \in DOMAIN page_table_ THEN pages_[page_table_[p]].data_ ELSE disk[p]]
  /\ call' = Call("FlushAllPages", -1, FALSE, "void", -1, NoVictim)
  /\ UNCHANGED <<replacer_, page_table_, free_list_, next_page_id_>>

\* Mutant of DeletePage: the page stays in the page table.
DeletePage_KeepsMapping(page_id) ==
  IF page_id \notin DOMAIN page_table_
    THEN /\ call' = Call("DeletePage", page_id, FALSE, "true", -1, NoVictim)
         /\ UNCHANGED <<replacer_, bpmVars>>
    ELSE LET frame_id == page_table_[page_id] IN
         IF pages_[frame_id].pin_count_ # 0
           THEN /\ call' = Call("DeletePage", page_id, FALSE, "false", frame_id, NoVictim)
                /\ UNCHANGED <<replacer_, bpmVars>>
           ELSE /\ page_table_' = page_table_
                /\ free_list_' = Append(free_list_, frame_id)
                /\ pages_' = ResetPageMetaInFrame(ResetMemory(pages_, frame_id), frame_id)
                /\ call' = Call("DeletePage", page_id, FALSE, "true", frame_id, NoVictim)
                /\ UNCHANGED <<replacer_, next_page_id_, disk>>

DeletePage(page_id) ==
  IF page_id \notin DOMAIN page_table_
    THEN /\ call' = Call("DeletePage", page_id, FALSE, "true", -1, NoVictim)
         /\ UNCHANGED <<replacer_, bpmVars>>
    ELSE LET frame_id == page_table_[page_id] IN
         IF pages_[frame_id].pin_count_ # 0
           THEN /\ call' = Call("DeletePage", page_id, FALSE, "false", frame_id, NoVictim)
                /\ UNCHANGED <<replacer_, bpmVars>>
           ELSE /\ page_table_' = MapErase(page_table_, page_id)
                /\ free_list_' = Append(free_list_, frame_id)
                /\ pages_' = ResetPageMetaInFrame(ResetMemory(pages_, frame_id), frame_id)
                /\ call' = Call("DeletePage", page_id, FALSE, "true", frame_id, NoVictim)
                /\ UNCHANGED <<replacer_, next_page_id_, disk>>

\* A caller that holds a pin on the page writes into its buffer
\* (Page::GetData / GetDataMut).
ModifyPage(page_id, data) ==
  /\ page_id \in DOMAIN page_table_
  /\ pages_[page_table_[page_id]].pin_count_ > 0
  /\ pages_' = [pages_ EXCEPT ![page_table_[page_id]].data_ = data]
  /\ call' = Call("ModifyPage", page_id, FALSE, "void", page_table_[page_id], NoVictim)
  /\ UNCHANGED <<replacer_, page_table_, free_list_, next_page_id_, disk>>

\* The page ids callers hold: the ones NewPage has handed out.
AllocatedPageIds == 0..(next_page_id_ - 1)

Next ==
  \/ NewPageNull /\ UNCHANGED extVars
  \/ NewPageFree /\ UNCHANGED extVars
  \/ NewPageEvict /\ UNCHANGED extVars
  \/ \E p \in AllocatedPageIds : FetchPageHit(p) /\ UNCHANGED extVars
  \/ \E p \in AllocatedPageIds : FetchPageNull(p) /\ UNCHANGED extVars
  \/ \E p \in AllocatedPageIds : FetchPageMissFree(p) /\ UNCHANGED extVars
  \/ \E p \in AllocatedPageIds : FetchPageMissEvict(p) /\ UNCHANGED extVars
  \/ \E p \in AllocatedPageIds, d \in BOOLEAN : UnpinPage(p, d) /\ UNCHANGED extVars
  \/ \E p \in AllocatedPageIds : FlushPage(p) /\ UNCHANGED extVars
  \/ FlushAllPages /\ UNCHANGED extVars
  \/ \E p \in AllocatedPageIds : DeletePage(p) /\ UNCHANGED extVars

Spec == Init /\ [][Next]_vars

NextData ==
  \/ Next
  \/ \E p \in AllocatedPageIds, v \in 0..MaxData : ModifyPage(p, v) /\ UNCHANGED extVars

SpecData == Init /\ [][NextData]_vars

(***************************************************************************)
(* The replacer alone.  Frame id NumFrames is the smallest frame id that   *)
(* is out of range.  With detail the call record keeps the arguments of    *)
(* the call; without, it keeps the operation, the access type and the      *)
(* outcome.  For Evict it keeps the victim (frame) and the number of       *)
(* accesses in the victim's history (arg).                                 *)
(***************************************************************************)
ReplacerFrameIds == 0..NumFrames

InitReplacerWith(num_frames) ==
  /\ replacer_ = LRUKReplacer(num_frames, ReplacerK)
  /\ pages_ = [f \in Frames |-> EmptyPage]
  /\ page_table_ = <<>>
  /\ free_list_ = [i \in 1..PoolSize |-> i - 1]
  /\ next_page_id_ = 0
  /\ disk = [p \in PageIds |-> 0]
  /\ call = NoCall
  /\ ExtOff

InitReplacer == InitReplacerWith(NumFrames)

InitEvict == InitReplacerWith(Cardinality(EvictFrames))

ReplacerRecordAccess(frame_id, access_type, detail) ==
  LET out == LRUKReplacer_RecordAccess(replacer_, frame_id, access_type) IN
  /\ replacer_' = out.state
  /\ call' = [Call("RecordAccess", IF detail THEN frame_id ELSE -1, FALSE, out.ret, -1, NoVictim)
                EXCEPT !.type = access_type]
  /\ UNCHANGED bpmVars

ReplacerSetEvictable(frame_id, set_evictable, detail) ==
  LET out == LRUKReplacer_SetEvictable(replacer_, frame_id, set_evictable) IN
  /\ replacer_' = out.state
  /\ call' = IF detail
               THEN Call("SetEvictable", frame_id, set_evictable, out.ret, -1, NoVictim)
               ELSE Call("SetEvictable", -1, FALSE, out.ret, -1, NoVictim)
  /\ UNCHANGED bpmVars

ReplacerEvictSome ==
  /\ \E victim \in LRUKReplacer_EvictVictims(replacer_) :
       /\ replacer_' = LRUKReplacer_Evict(replacer_, victim)
       /\ call' = Call("Evict", Len(replacer_.node_store_[victim].history_), FALSE, "true",
                       victim, NoVictim)
  /\ UNCHANGED bpmVars

ReplacerEvictNone ==
  /\ LRUKReplacer_EvictVictims(replacer_) = {}
  /\ replacer_' = replacer_
  /\ call' = Call("Evict", -1, FALSE, "false", -1, NoVictim)
  /\ UNCHANGED bpmVars

ReplacerRemove(frame_id, detail) ==
  LET out == LRUKReplacer_Remove(replacer_, frame_id) IN
  /\ replacer_' = out.state
  /\ call' = Call("Remove", IF detail THEN frame_id ELSE -1, FALSE, out.ret, -1, NoVictim)
  /\ UNCHANGED bpmVars

NextReplacer ==
  \/ \E f \in ReplacerFrameIds, t \in AccessTypes :
        /\ replacer_.current_timestamp_ < MaxReplacerTimestamp
        /\ ReplacerRecordAccess(f, t, TRUE)
        /\ UNCHANGED extVars
  \/ \E f \in ReplacerFrameIds, b \in BOOLEAN :
        ReplacerSetEvictable(f, b, TRUE) /\ UNCHANGED extVars
  \/ ReplacerEvictSome /\ UNCHANGED extVars
  \/ ReplacerEvictNone /\ UNCHANGED extVars
  \/ \E f \in ReplacerFrameIds : ReplacerRemove(f, TRUE) /\ UNCHANGED extVars

SpecReplacer == InitReplacer /\ [][NextReplacer]_vars

\* The calls that change the replacer's state: the others (a call that
\* fails, SetEvictable with the flag the node has, Remove of an absent frame,
\* Evict with nothing evictable) leave it as it is.
NextEvict ==
  \/ \E f \in EvictFrames, t \in AccessTypes :
        /\ replacer_.current_timestamp_ < MaxEvictTimestamp
        /\ ReplacerRecordAccess(f, t, FALSE)
        /\ UNCHANGED extVars
  \/ \E f \in DOMAIN replacer_.node_store_ :
        /\ ReplacerSetEvictable(f, ~replacer_.node_store_[f].is_evictable_, FALSE)
        /\ UNCHANGED extVars
  \/ ReplacerEvictSome /\ UNCHANGED extVars
  \/ \E f \in EvictCandidates(replacer_) : ReplacerRemove(f, FALSE) /\ UNCHANGED extVars

SpecEvict == InitEvict /\ [][NextEvict]_vars

(***************************************************************************)
(* DiskScheduler.  request_queue_ is a Channel: an unbounded FIFO queue    *)
(* whose Put never blocks and whose Get blocks until an item is there and  *)
(* takes the oldest one; both run under the channel's mutex, so each is    *)
(* one atomic step.  A worker is at one of the places of StartWorkerThread:*)
(*   "Get"       blocked in request_queue_.Get() (lines 51 and 68);        *)
(*   "Disk"      holding a request, about to call the DiskManager (61-65); *)
(*   "InDisk"    inside ReadPage or WritePage;                             *)
(*   "SetValue"  the disk call has returned, about to fulfil callback_;    *)
(*   "Exited"    out of the loop (line 54), the thread has ended.          *)
(* promises keeps, for every request passed to Schedule, what was done     *)
(* with it: the workers that took it, the DiskManager calls made for it    *)
(* and how many have returned, and the values its callback_ was fulfilled  *)
(* with.                                                                   *)
(***************************************************************************)
Workers == 1..NumWorkers

\* std::nullopt in the queue
Nullopt == [is_request |-> FALSE]

DiskRequest(id, is_write, page_id) ==
  [is_request |-> TRUE, id |-> id, is_write_ |-> is_write, page_id_ |-> page_id]

\* Channel::Put
Channel_Put(q, item) == Append(q, item)

\* Channel::Get can return when the queue holds an item; it returns the oldest.
Channel_CanGet(q) == q # <<>>

Channel_Front(q) == Head(q)

Channel_Pop(q) == Tail(q)

NewPromise(r) ==
  [request |-> r, taken_by |-> <<>>, disk_calls |-> <<>>, returned |-> 0, set_value |-> <<>>]

\* DiskScheduler::DiskScheduler: StartMultiWorkerThreads(num_workers)
InitScheduler ==
  /\ request_queue_ = <<>>
  /\ worker_threads_ = [w \in Workers |-> [pc |-> "Get", request |-> Nullopt, sentinels |-> 0]]
  /\ promises = <<>>
  /\ scheduler = [pc |-> "alive", sentinels_put |-> 0, joined |-> 0, pending_at_dtor |-> 0]

InitSched ==
  /\ InitBufferPool
  /\ InitScheduler
  /\ GuardsOff
  /\ DirOff
  /\ TrieOff

\* DiskScheduler::Schedule, called by the owner while the scheduler is alive.
Schedule(is_write, page_id) ==
  /\ scheduler.pc = "alive"
  /\ Len(promises) < MaxRequests
  /\ LET r == DiskRequest(Len(promises) + 1, is_write, page_id) IN
       /\ request_queue_' = Channel_Put(request_queue_, r)
       /\ promises' = Append(promises, NewPromise(r))
  /\ UNCHANGED <<worker_threads_, scheduler>>

\* request_queue_.Get() in a worker, and the test of has_value() after it.
WorkerGet(w) ==
  /\ worker_threads_[w].pc = "Get"
  /\ Channel_CanGet(request_queue_)
  /\ LET request == Channel_Front(request_queue_) IN
       /\ request_queue_' = Channel_Pop(request_queue_)
       /\ IF request.is_request
            THEN /\ worker_threads_' =
                      [worker_threads_ EXCEPT ![w].pc = "Disk", ![w].request = request]
                 /\ promises' = [promises EXCEPT ![request.id].taken_by = Append(@, w)]
            ELSE /\ worker_threads_' =
                      [worker_threads_ EXCEPT ![w].pc = "Exited", ![w].sentinels = @ + 1]
                 /\ UNCHANGED promises
  /\ UNCHANGED scheduler

\* Mutant of WorkerDisk: the worker fulfils the callback while the disk call runs.
WorkerDisk_SignalsEarly(w) ==
  /\ worker_threads_[w].pc = "Disk"
  /\ LET request == worker_threads_[w].request IN
       promises' = [promises EXCEPT
          ![request.id].disk_calls =
             Append(@, [op |-> IF request.is_write_ THEN "WritePage" ELSE "ReadPage",
                        page_id |-> request.page_id_]),
          ![request.id].set_value = Append(@, TRUE)]
  /\ worker_threads_' = [worker_threads_ EXCEPT ![w].pc = "InDisk"]
  /\ UNCHANGED <<request_queue_, scheduler>>

\* The worker enters disk_manager_->WritePage or disk_manager_->ReadPage.
WorkerDisk(w) ==
  /\ worker_threads_[w].pc = "Disk"
  /\ LET request == worker_threads_[w].request IN
       promises' = [promises EXCEPT ![request.id].disk_calls =
          Append(@, [op |-> IF request.is_write_ THEN "WritePage" ELSE "ReadPage",
                     page_id |-> request.page_id_])]
  /\ worker_threads_' = [worker_threads_ EXCEPT ![w].pc = "InDisk"]
  /\ UNCHANGED <<request_queue_, scheduler>>

\* The DiskManager call returns.
WorkerDiskReturn(w) ==
  /\ worker_threads_[w].pc = "InDisk"
  /\ promises' = [promises EXCEPT ![worker_threads_[w].request.id].returned = @ + 1]
  /\ worker_threads_' = [worker_threads_ EXCEPT ![w].pc = "SetValue"]
  /\ UNCHANGED <<request_queue_, scheduler>>

\* callback.set_value(true), then back to request_queue_.Get().
WorkerSetValue(w) ==
  /\ worker_threads_[w].pc = "SetValue"
  /\ promises' = [promises EXCEPT ![worker_threads_[w].request.id].set_value = Append(@, TRUE)]
  /\ worker_threads_' = [worker_threads_ EXCEPT ![w].pc = "Get", ![w].request = Nullopt]
  /\ UNCHANGED <<request_queue_, scheduler>>

Fulfilled(id) == promises[id].set_value # <<>>

\* ~DiskScheduler starts: the owner stops scheduling.
DestructorStart ==
  /\ scheduler.pc = "alive"
  /\ scheduler' = [scheduler EXCEPT
        !.pc = "put",
        !.pending_at_dtor = Cardinality({id \in DOMAIN promises : ~Fulfilled(id)})]
  /\ UNCHANGED <<request_queue_, worker_threads_, promises>>

\* Mutant of DestructorPut: one sentinel for all the workers.
DestructorPut_OneSentinel ==
  /\ scheduler.pc = "put"
  /\ request_queue_' = Channel_Put(request_queue_, Nullopt)
  /\ scheduler' = [scheduler EXCEPT !.sentinels_put = @ + 1, !.pc = "join"]
  /\ UNCHANGED <<worker_threads_, promises>>

\* The first loop of ~DiskScheduler: one request_queue_.Put(std::nullopt) per worker.
DestructorPut ==
  /\ scheduler.pc = "put"
  /\ IF scheduler.sentinels_put < NumWorkers
       THEN /\ request_queue_' = Channel_Put(request_queue_, Nullopt)
            /\ scheduler' = [scheduler EXCEPT !.sentinels_put = @ + 1]
       ELSE /\ scheduler' = [scheduler EXCEPT !.pc = "join"]
            /\ UNCHANGED request_queue_
  /\ UNCHANGED <<worker_threads_, promises>>

\* The second loop of ~DiskScheduler: thread.join() returns once the thread
\* has ended.
DestructorJoin ==
  /\ scheduler.pc = "join"
  /\ IF scheduler.joined < NumWorkers
       THEN /\ worker_threads_[scheduler.joined + 1].pc = "Exited"
            /\ scheduler' = [scheduler EXCEPT !.joined = @ + 1]
       ELSE scheduler' = [scheduler EXCEPT !.pc = "done"]
  /\ UNCHANGED <<request_queue_, worker_threads_, promises>>

WorkerStep(w) ==
  \/ WorkerGet(w)
  \/ WorkerDisk(w)
  \/ WorkerDiskReturn(w)
  \/ WorkerSetValue(w)

Destructor ==
  \/ DestructorPut
  \/ DestructorJoin

NextSched ==
  \/ \E r \in SchedRequests : Schedule(r.is_write, r.page_id) /\ UNCHANGED schedRest
  \/ \E w \in Workers : WorkerGet(w) /\ UNCHANGED schedRest
  \/ \E w \in Workers : WorkerDisk(w) /\ UNCHANGED schedRest
  \/ \E w \in Workers : WorkerDiskReturn(w) /\ UNCHANGED schedRest
  \/ \E w \in Workers : WorkerSetValue(w) /\ UNCHANGED schedRest
  \/ DestructorStart /\ UNCHANGED schedRest
  \/ DestructorPut /\ UNCHANGED schedRest
  \/ DestructorJoin /\ UNCHANGED schedRest

\* Every worker is a thread of its own and the owner runs the destructor to
\* its end once it has entered it: a step that stays possible is taken.
\* Whether the owner schedules a request or destroys the scheduler is up to
\* the owner.
SpecSched ==
  /\ InitSched
  /\ [][NextSched]_vars
  /\ \A w \in Workers : WF_vars(WorkerStep(w) /\ UNCHANGED schedRest)
  /\ WF_vars(Destructor /\ UNCHANGED schedRest)

(***************************************************************************)
(* Page guards.  A guard object is a record of its variant (kind), the     *)
(* fields bpm_, page_ and is_dirty_ of its BasicPageGuard (for a Read or   *)
(* Write guard: of its member guard_), and whether the object is alive.    *)
(* page_ is the frame the guard points to.  A page's latch is a            *)
(* reader-writer lock: any number of readers or one writer.                *)
(*                                                                         *)
(* guard_call records the last operation on a guard: the calls it made, in *)
(* order ("RUnlatch", "WUnlatch", "UnpinPage"), and whether it             *)
(* dereferenced a null page_.  That dereference is undefined behaviour:    *)
(* the process is killed ("crash"), or the unlatch runs on whatever is at  *)
(* the null address and the operation goes on ("wild_unlatch").  After a   *)
(* crash nothing runs any more.                                            *)
(***************************************************************************)
GuardIds == 1..MaxGuards

GuardKinds == {"Basic", "Read", "Write"}

\* Pointers: nullptr is the empty tuple, a pointer is the tuple of what it
\* points to.
Null == <<>>

\* this of the buffer pool manager
Bpm == <<"bpm">>

\* &pages_[f]
PagePtr(f) == <<f>>

\* The frame a non-null page_ points to.
FrameOf(page) == page[1]

\* A guard object that is not constructed yet.
NoGuard == [kind |-> "none", bpm_ |-> Null, page_ |-> Null, is_dirty_ |-> FALSE, life |-> "unborn"]

\* A guard object whose destructor has run.
Destroyed == [NoGuard EXCEPT !.life = "destroyed"]

\* BasicPageGuard(bpm, page), ReadPageGuard(bpm, page), WritePageGuard(bpm, page)
PageGuard(kind, bpm, page) ==
  [kind |-> kind, bpm_ |-> bpm, page_ |-> page, is_dirty_ |-> FALSE, life |-> "alive"]

\* Mutant of BasicPageGuard_DropNoUnpin: the guard keeps its pointers.
BasicPageGuard_DropNoUnpin_Keeps(g) == g

BasicPageGuard_DropNoUnpin(g) == [g EXCEPT !.bpm_ = Null, !.page_ = Null]

\* The test at the head of BasicPageGuard::Drop: the guard is empty.
BasicPageGuard_IsEmpty(g) == g.bpm_ = Null \/ g.page_ = Null

FreeLatch == [readers |-> 0, writer |-> FALSE]

\* Page::RLatch and Page::WLatch can be taken without blocking.
CanRLatch(f) == ~latch[f].writer

CanWLatch(f) == ~latch[f].writer /\ latch[f].readers = 0

\* The latch the caller takes before it wraps frame f in a guard of the kind.
LatchFor(kind, f) ==
  CASE kind = "Basic" -> latch
    [] kind = "Read" -> [latch EXCEPT ![f].readers = @ + 1]
    [] kind = "Write" -> [latch EXCEPT ![f].writer = TRUE]

CanLatchFor(kind, f) ==
  CASE kind = "Basic" -> TRUE
    [] kind = "Read" -> CanRLatch(f)
    [] kind = "Write" -> CanWLatch(f)

\* was_dirty is the guard's is_dirty_ when the operation started.
GuardCall(op, g, events, fault) ==
  [op |-> op, guard |-> g, events |-> events, fault |-> fault,
   was_dirty |-> IF g \in DOMAIN guards THEN guards[g].is_dirty_ ELSE FALSE]

Running == guard_call.fault # "crash"

\* Guard objects are created in the order of their numbers.
IsNextGuard(g) ==
  /\ guards[g].life = "unborn"
  /\ \A h \in GuardIds : h < g => guards[h].life # "unborn"

InitGuard ==
  /\ InitBufferPool
  /\ guards = [g \in GuardIds |-> NoGuard]
  /\ latch = [f \in Frames |-> FreeLatch]
  /\ guard_call = GuardCall("none", 0, <<>>, "none")
  /\ threads = <<>>
  /\ SchedOff
  /\ DirOff
  /\ TrieOff

\* auto *page = bpm->NewPage(&id); then the latch for the kind; then the guard.
GuardWrapNewPage(g, kind) ==
  /\ Running
  /\ IsNextGuard(g)
  /\ replacer_.current_timestamp_ < MaxGuardTimestamp
  /\ NewPageFree
  /\ LET f == Head(free_list_) IN
       /\ latch' = LatchFor(kind, f)
       /\ guards' = [guards EXCEPT ![g] = PageGuard(kind, Bpm, PagePtr(f))]
  /\ guard_call' = GuardCall("Wrap", g, <<>>, "none")
  /\ UNCHANGED threads

\* auto *page = bpm->FetchPage(id) of a resident page; the latch; the guard.
GuardWrapFetchPage(g, kind, page_id) ==
  /\ Running
  /\ IsNextGuard(g)
  /\ replacer_.current_timestamp_ < MaxGuardTimestamp
  /\ page_id \in DOMAIN page_table_
  /\ CanLatchFor(kind, page_table_[page_id])
  /\ FetchPageHit(page_id)
  /\ latch' = LatchFor(kind, page_table_[page_id])
  /\ guards' = [guards EXCEPT ![g] = PageGuard(kind, Bpm, PagePtr(page_table_[page_id]))]
  /\ guard_call' = GuardCall("Wrap", g, <<>>, "none")
  /\ UNCHANGED threads

\* BufferPoolManager::FetchPageBasic, FetchPageRead, FetchPageWrite and
\* NewPageGuarded: return {this, nullptr}.
GuardWithoutFrame(g, kind) ==
  /\ Running
  /\ IsNextGuard(g)
  /\ guards' = [guards EXCEPT ![g] = PageGuard(kind, Bpm, Null)]
  /\ guard_call' = GuardCall("WithoutFrame", g, <<>>, "none")
  /\ UNCHANGED <<poolVars, latch, threads>>

\* GetDataMut on a guard that holds a page marks the guard dirty.
GuardGetDataMut(g) ==
  /\ Running
  /\ guards[g].life = "alive"
  /\ guards[g].kind \in {"Basic", "Write"}
  /\ ~BasicPageGuard_IsEmpty(guards[g])
  /\ ~guards[g].is_dirty_
  /\ guards' = [guards EXCEPT ![g].is_dirty_ = TRUE]
  /\ guard_call' = GuardCall("GetDataMut", g, <<>>, "none")
  /\ UNCHANGED <<poolVars, latch, threads>>

\* The move constructors: BasicPageGuard(BasicPageGuard &&that), and the
\* defaulted ones of ReadPageGuard and WritePageGuard, which move guard_.
GuardMoveConstruct(that, g) ==
  /\ Running
  /\ that # g
  /\ guards[that].life = "alive"
  /\ IsNextGuard(g)
  /\ guards' = [guards EXCEPT
        ![g] = [guards[that] EXCEPT !.life = "alive"],
        ![that] = BasicPageGuard_DropNoUnpin(guards[that])]
  /\ guard_call' = GuardCall("MoveConstruct", that, <<>>, "none")
  /\ UNCHANGED <<poolVars, latch, threads>>

\* BasicPageGuard::UpgradeRead and UpgradeWrite.  The caller takes the latch
\* of the page before it upgrades a guard that holds one.
GuardUpgrade(that, g, kind) ==
  /\ Running
  /\ that # g
  /\ kind \in {"Read", "Write"}
  /\ guards[that].life = "alive"
  /\ guards[that].kind = "Basic"
  /\ IsNextGuard(g)
  /\ IF guards[that].page_ = Null
       THEN UNCHANGED latch
       ELSE /\ CanLatchFor(kind, FrameOf(guards[that].page_))
            /\ latch' = LatchFor(kind, FrameOf(guards[that].page_))
  /\ guards' = [guards EXCEPT
        ![g] = PageGuard(kind, guards[that].bpm_, guards[that].page_),
        ![that] = BasicPageGuard_DropNoUnpin(guards[that])]
  /\ guard_call' = GuardCall("Upgrade", that, <<>>, "none")
  /\ UNCHANGED <<poolVars, threads>>

\* A guard object after Drop (it lives on) or after its destructor (it is gone).
After(life, g) == IF life = "alive" THEN g ELSE Destroyed

\* BasicPageGuard::Drop on guard g whose is_dirty_ is is_dirty, after the
\* calls in events; the object lives on as life.
BasicPageGuard_Drop(op, g, is_dirty, events, fault, life) ==
  IF BasicPageGuard_IsEmpty(guards[g])
    THEN /\ guards' = [guards EXCEPT ![g] = After(life, [guards[g] EXCEPT !.is_dirty_ = is_dirty])]
         /\ guard_call' = GuardCall(op, g, events, fault)
         /\ UNCHANGED poolVars
    ELSE /\ UnpinPage(pages_[FrameOf(guards[g].page_)].page_id_, is_dirty)
         /\ guards' = [guards EXCEPT
               ![g] = After(life, BasicPageGuard_DropNoUnpin(
                                    [guards[g] EXCEPT !.is_dirty_ = is_dirty]))]
         /\ guard_call' = GuardCall(op, g, Append(events, "UnpinPage"), fault)

\* ReadPageGuard::Drop: guard_.page_->RUnlatch(); guard_.Drop();
ReadPageGuard_Drop(op, g, life) ==
  IF guards[g].page_ = Null
    THEN \/ /\ guard_call' = GuardCall(op, g, <<>>, "crash")
            /\ UNCHANGED <<poolVars, guards, latch>>
         \/ /\ UNCHANGED latch
            /\ BasicPageGuard_Drop(op, g, guards[g].is_dirty_, <<"RUnlatch">>,
                                   "wild_unlatch", life)
    ELSE /\ latch' = [latch EXCEPT ![FrameOf(guards[g].page_)].readers = @ - 1]
         /\ BasicPageGuard_Drop(op, g, guards[g].is_dirty_, <<"RUnlatch">>, "none", life)

\* Mutant of WritePageGuard_Drop: is_dirty_ is left as it is.
WritePageGuard_Drop_KeepsFlag(op, g, life) ==
  /\ guards[g].page_ # Null
  /\ latch' = [latch EXCEPT ![FrameOf(guards[g].page_)].writer = FALSE]
  /\ BasicPageGuard_Drop(op, g, guards[g].is_dirty_, <<"WUnlatch">>, "none", life)

\* WritePageGuard::Drop: guard_.page_->WUnlatch(); guard_.is_dirty_ = true;
\* guard_.Drop();
WritePageGuard_Drop(op, g, life) ==
  IF guards[g].page_ = Null
    THEN \/ /\ guard_call' = GuardCall(op, g, <<>>, "crash")
            /\ UNCHANGED <<poolVars, guards, latch>>
         \/ /\ UNCHANGED latch
            /\ BasicPageGuard_Drop(op, g, TRUE, <<"WUnlatch">>, "wild_unlatch", life)
    ELSE /\ latch' = [latch EXCEPT ![FrameOf(guards[g].page_)].writer = FALSE]
         /\ BasicPageGuard_Drop(op, g, TRUE, <<"WUnlatch">>, "none", life)

\* Drop of a guard of any variant.
PageGuard_Drop(op, g, life) ==
  CASE guards[g].kind = "Basic" ->
         /\ UNCHANGED latch
         /\ BasicPageGuard_Drop(op, g, guards[g].is_dirty_, <<>>, "none", life)
    [] guards[g].kind = "Read" -> ReadPageGuard_Drop(op, g, life)
    [] guards[g].kind = "Write" -> WritePageGuard_Drop(op, g, life)

\* An explicit call of Drop().
GuardDrop(g) ==
  /\ Running
  /\ guards[g].life = "alive"
  /\ PageGuard_Drop("Drop", g, "alive")
  /\ UNCHANGED threads

\* The destructor: Drop(), and for a Read or Write guard the destructor of
\* guard_ after it, which finds guard_ empty.
GuardDestroy(g) ==
  /\ Running
  /\ guards[g].life = "alive"
  /\ PageGuard_Drop("Destroy", g, "destroyed")
  /\ UNCHANGED threads

NextGuard ==
  \/ \E g \in GuardIds, kind \in GuardKinds : GuardWrapNewPage(g, kind) /\ UNCHANGED guardRest
  \/ \E g \in GuardIds, kind \in GuardKinds, p \in AllocatedPageIds :
        GuardWrapFetchPage(g, kind, p) /\ UNCHANGED guardRest
  \/ \E g \in GuardIds, kind \in GuardKinds : GuardWithoutFrame(g, kind) /\ UNCHANGED guardRest
  \/ \E g \in GuardIds : GuardGetDataMut(g) /\ UNCHANGED guardRest
  \/ \E that, g \in GuardIds : GuardMoveConstruct(that, g) /\ UNCHANGED guardRest
  \/ \E that, g \in GuardIds, kind \in {"Read", "Write"} :
        GuardUpgrade(that, g, kind) /\ UNCHANGED guardRest
  \/ \E g \in GuardIds : GuardDrop(g) /\ UNCHANGED guardRest
  \/ \E g \in GuardIds : GuardDestroy(g) /\ UNCHANGED guardRest

SpecGuard == InitGuard /\ [][NextGuard]_vars

\* g = std::move(that) for two guards of one variant, g = std::move(g)
\* included.  BasicPageGuard::operator= copies the three fields of that and
\* calls that.DropNoUnpin(); ReadPageGuard::operator= and
\* WritePageGuard::operator= move-assign guard_.  Nothing is called on the
\* page g held.
GuardMoveAssign(that, g) ==
  /\ Running
  /\ guards[that].life = "alive"
  /\ guards[g].life = "alive"
  /\ guards[that].kind = guards[g].kind
  /\ LET assigned == [guards EXCEPT ![g].bpm_ = guards[that].bpm_,
                                    ![g].page_ = guards[that].page_,
                                    ![g].is_dirty_ = guards[that].is_dirty_] IN
     guards' = [assigned EXCEPT ![that] = BasicPageGuard_DropNoUnpin(assigned[that])]
  /\ guard_call' = GuardCall("MoveAssign", g, <<>>, "none")
  /\ UNCHANGED <<poolVars, latch, threads>>

NextGuardAssign ==
  \/ NextGuard
  \/ \E that, g \in GuardIds : GuardMoveAssign(that, g) /\ UNCHANGED guardRest

SpecGuardAssign == InitGuard /\ [][NextGuardAssign]_vars

(***************************************************************************)
(* MultiWriterTest.  The main thread creates a page, which stays pinned by *)
(* it, and starts the threads.  A thread is at one of the places of its    *)
(* body:                                                                   *)
(*   "FetchPage"  bpm->FetchPage(page_id_temp)                  (line 137) *)
(*   "WLatch"     page_ptr->WLatch(), then the guard        (lines 138-141)*)
(*   "ReadData"   std::string s(data)                           (line 142) *)
(*   "WriteData"  s += "#"; snprintf(data, ...)              (lines 143-144)*)
(*   "WUnlatch"   the guard's destructor: page_->WUnlatch()                *)
(*   "UnpinPage"  is_dirty_ = true; UnpinPage through BasicPageGuard::Drop *)
(*   "Done"                                                                *)
(* The content of the page is the number of marks in it; s is the number   *)
(* of marks in the thread's copy.  Pool operations run under the pool's    *)
(* latch_, so each is one step; the reads and writes of the buffer are     *)
(* steps of their own.                                                     *)
(***************************************************************************)
Threads == 1..NumThreads

InitWriters ==
  /\ InitBufferPool
  /\ threads = [t \in Threads |-> [pc |-> "NotStarted", s |-> 0]]
  /\ latch = [f \in Frames |-> FreeLatch]
  /\ guards = <<>>
  /\ guard_call = [op |-> "off"]
  /\ SchedOff
  /\ DirOff
  /\ TrieOff

\* The page the threads write: the first page NewPage hands out.
PageIdTemp == 0

WritersFrame == page_table_[PageIdTemp]

\* auto *page = bpm->NewPage(&page_id_temp); snprintf(page->GetData(), ..., "");
\* then the threads are started.
MainNewPage ==
  /\ \A t \in Threads : threads[t].pc = "NotStarted"
  /\ NewPageFree
  /\ threads' = [t \in Threads |-> [pc |-> "FetchPage", s |-> 0]]
  /\ UNCHANGED <<guards, latch, guard_call>>

ThreadFetchPage(t) ==
  /\ threads[t].pc = "FetchPage"
  /\ FetchPageHit(PageIdTemp)
  /\ threads' = [threads EXCEPT ![t].pc = "WLatch"]
  /\ UNCHANGED <<guards, latch, guard_call>>

\* Mutant of ThreadWLatch: the thread goes on without the latch.
ThreadWLatch_NoLatch(t) ==
  /\ threads[t].pc = "WLatch"
  /\ threads' = [threads EXCEPT ![t].pc = "ReadData"]
  /\ latch' = [latch EXCEPT ![WritersFrame].writer = TRUE]
  /\ UNCHANGED <<poolVars, guards, guard_call>>

\* page_ptr->WLatch() blocks while the latch is held.
ThreadWLatch(t) ==
  /\ threads[t].pc = "WLatch"
  /\ CanWLatch(WritersFrame)
  /\ threads' = [threads EXCEPT ![t].pc = "ReadData"]
  /\ latch' = [latch EXCEPT ![WritersFrame].writer = TRUE]
  /\ UNCHANGED <<poolVars, guards, guard_call>>

ThreadReadData(t) ==
  /\ threads[t].pc = "ReadData"
  /\ threads' = [threads EXCEPT ![t].pc = "WriteData", ![t].s = pages_[WritersFrame].data_]
  /\ UNCHANGED <<poolVars, guards, latch, guard_call>>

ThreadWriteData(t) ==
  /\ threads[t].pc = "WriteData"
  /\ pages_' = [pages_ EXCEPT ![WritersFrame].data_ = threads[t].s + 1]
  /\ threads' = [threads EXCEPT ![t].pc = "WUnlatch"]
  /\ UNCHANGED <<replacer_, page_table_, free_list_, next_page_id_, disk, call,
                 guards, latch, guard_call>>

\* WritePageGuard::Drop, first statement.
ThreadWUnlatch(t) ==
  /\ threads[t].pc = "WUnlatch"
  /\ latch' = [latch EXCEPT ![WritersFrame].writer = FALSE]
  /\ threads' = [threads EXCEPT ![t].pc = "UnpinPage"]
  /\ UNCHANGED <<poolVars, guards, guard_call>>

\* WritePageGuard::Drop, the rest: is_dirty_ = true; BasicPageGuard::Drop.
ThreadUnpinPage(t) ==
  /\ threads[t].pc = "UnpinPage"
  /\ UnpinPage(pages_[WritersFrame].page_id_, TRUE)
  /\ threads' = [threads EXCEPT ![t].pc = "Done"]
  /\ UNCHANGED <<guards, latch, guard_call>>

NextWriters ==
  \/ MainNewPage /\ UNCHANGED guardRest
  \/ \E t \in Threads : ThreadFetchPage(t) /\ UNCHANGED guardRest
  \/ \E t \in Threads : ThreadWLatch(t) /\ UNCHANGED guardRest
  \/ \E t \in Threads : ThreadReadData(t) /\ UNCHANGED guardRest
  \/ \E t \in Threads : ThreadWriteData(t) /\ UNCHANGED guardRest
  \/ \E t \in Threads : ThreadWUnlatch(t) /\ UNCHANGED guardRest
  \/ \E t \in Threads : ThreadUnpinPage(t) /\ UNCHANGED guardRest

SpecWriters == InitWriters /\ [][NextWriters]_vars

----------------------------------------------------------------------------
(* SpecCalls: threads calling the pool concurrently, with the pool's        *)
(* latch_, the pages' reader-writer latches and the scheduler's workers.    *)
(* A pool call is: lock latch_ (std::lock_guard at the top of every public  *)
(* member), schedule the call's disk request and wait on its future while   *)
(* latch_ is held, then change the pool and release latch_ on return.  The  *)
(* change the call makes is the one of the pool's actions above, applied    *)
(* when the call returns.  threads is a record here: main is the position   *)
(* of the thread that set the pool up, latch_ the holder of the pool mutex  *)
(* (0 when free) and callers the calling threads.                           *)

Callers == 1..NumCallers

IdleCaller ==
  [pc |-> "Idle", op |-> "none", page_id |-> INVALID_PAGE_ID, kind |-> "none",
   frame |-> -1, promise |-> 0, latched |-> FALSE]

InitCalls ==
  /\ InitBufferPool
  /\ InitScheduler
  /\ threads = [main |-> "NewPage", latch_ |-> 0, callers |-> [t \in Callers |-> IdleCaller]]
  /\ latch = [f \in Frames |-> FreeLatch]
  /\ guards = <<>>
  /\ guard_call = [op |-> "off"]
  /\ DirOff
  /\ TrieOff

\* The setting up thread creates a page ...
CallsMainNewPage ==
  /\ threads.main = "NewPage"
  /\ NewPageFree
  /\ threads' = [threads EXCEPT !.main = "UnpinPage"]
  /\ UNCHANGED <<schedVars, latch>>

\* ... and unpins it, written to or not, before the callers start.
CallsMainUnpinPage(is_dirty) ==
  /\ threads.main = "UnpinPage"
  /\ UnpinPage(PageIdTemp, is_dirty)
  /\ threads' = [threads EXCEPT !.main = "Started"]
  /\ UNCHANGED <<schedVars, latch>>

\* ... or keeps it pinned while the callers run.
CallsMainKeepsPage ==
  /\ threads.main = "UnpinPage"
  /\ threads' = [threads EXCEPT !.main = "Started"]
  /\ UNCHANGED <<poolVars, schedVars, latch>>

\* A thread begins its call: FetchPage for a read or a write guard, NewPage,
\* FlushPage or DeletePage.
CallerStart(t, op, page_id, kind) ==
  /\ threads.main = "Started"
  /\ threads.callers[t].pc = "Idle"
  /\ threads' = [threads EXCEPT !.callers[t] =
        [IdleCaller EXCEPT !.pc = "Lock", !.op = op, !.page_id = page_id, !.kind = kind]]
  /\ UNCHANGED <<poolVars, schedVars, latch>>

\* std::lock_guard<std::mutex> guard{latch_}: the thread waits until no
\* thread holds latch_ and takes it.
MutexLock(t) ==
  /\ threads.callers[t].pc = "Lock"
  /\ threads.latch_ = 0
  /\ threads' = [threads EXCEPT !.latch_ = t, !.callers[t].pc = "InCall"]
  /\ UNCHANGED <<poolVars, schedVars, latch>>

\* Mutant of lock_guard_Release: FetchPage returns with latch_ still held.
lock_guard_Release_KeptByFetchPage(t) ==
  IF threads.callers[t].op = "FetchPage" THEN t ELSE 0

\* The holder of latch_ after the lock_guard of thread t went out of scope.
lock_guard_Release(t) == 0

\* The change the call of thread t makes to the pool, by the pool's actions.
PoolCall(t) ==
  LET c == threads.callers[t] IN
  \/ /\ c.op = "FetchPage"
     /\ \/ FetchPageHit(c.page_id)
        \/ FetchPageNull(c.page_id)
        \/ FetchPageMissFree(c.page_id)
        \/ FetchPageMissEvict(c.page_id)
  \/ /\ c.op = "NewPage"
     /\ \/ NewPageNull
        \/ NewPageFree
        \/ NewPageEvict /\ (c.frame # -1 => call'.frame = c.frame)
  \/ c.op = "FlushPage" /\ FlushPage(c.page_id)
  \/ c.op = "DeletePage" /\ DeletePage(c.page_id)
  \/ c.op = "UnpinPage" /\ UnpinPage(c.page_id, c.kind = "Write")

\* The call returns: the pool changes, latch_ is released, and the thread
\* goes on to the page latch when FetchPage gave it a page.
CallerReturn(t) ==
  /\ PoolCall(t)
  /\ threads' = [threads EXCEPT
        !.latch_ = lock_guard_Release(t),
        !.callers[t].pc =
           IF threads.callers[t].op = "FetchPage" /\ call'.ret = "page"
             THEN "Latch" ELSE "Done",
        !.callers[t].frame =
           IF threads.callers[t].op = "FetchPage" THEN call'.frame ELSE @]
  /\ UNCHANGED latch

\* The disk requests of a call, from the state the call finds under latch_:
\* FetchPage reads the page when it misses and has a frame, NewPage writes
\* the dirty victim it evicts, FlushPage writes a resident page.  The result
\* is the set of <<is_write, page_id, frame>> the call may schedule, empty
\* when the call does no I/O.
CallRequests(c) ==
  IF c.op = "FetchPage"
    THEN IF c.page_id \in DOMAIN page_table_ \/ NoFrameAvailable
           THEN {}
           ELSE {<<FALSE, c.page_id, -1>>}
  ELSE IF c.op = "NewPage"
    THEN IF free_list_ # <<>> \/ NoFrameAvailable
           THEN {}
           ELSE {<<TRUE, pages_[f].page_id_, f>> :
                    f \in {v \in LRUKReplacer_EvictVictims(replacer_) : pages_[v].is_dirty_}}
  ELSE IF c.op = "FlushPage"
    THEN IF c.page_id \in DOMAIN page_table_
           THEN {<<TRUE, c.page_id, -1>>}
           ELSE {}
  ELSE {}

\* The victims NewPage may evict without a write.
CleanVictims(c) ==
  IF c.op = "NewPage" /\ free_list_ = <<>> /\ ~NoFrameAvailable
    THEN {v \in LRUKReplacer_EvictVictims(replacer_) : ~pages_[v].is_dirty_}
    ELSE {}

\* disk_scheduler_->Schedule(...) inside the call, under latch_.
CallerSchedule(t) ==
  /\ threads.callers[t].pc = "InCall"
  /\ threads.latch_ = t
  /\ \E r \in CallRequests(threads.callers[t]) :
       /\ Schedule(r[1], r[2])
       /\ threads' = [threads EXCEPT !.callers[t].pc = "FutureGet",
                                     !.callers[t].frame = r[3],
                                     !.callers[t].promise = Len(promises) + 1]
  /\ UNCHANGED <<poolVars, latch>>

\* A call that needs no disk request returns at once.
CallerNoIO(t) ==
  /\ threads.callers[t].pc = "InCall"
  /\ threads.latch_ = t
  /\ CallRequests(threads.callers[t]) = {} \/ CleanVictims(threads.callers[t]) # {}
  /\ CallerReturn(t)
  /\ CleanVictims(threads.callers[t]) # {} => call'.frame \in CleanVictims(threads.callers[t])
  /\ UNCHANGED schedVars

\* future.get() returns once a worker has set the promise; the call returns.
CallerFutureGet(t) ==
  /\ threads.callers[t].pc = "FutureGet"
  /\ threads.latch_ = t
  /\ Fulfilled(threads.callers[t].promise)
  /\ CallerReturn(t)
  /\ UNCHANGED schedVars

\* page->RLatch() or page->WLatch() by the thread that fetched the page.
CallerLatch(t) ==
  LET c == threads.callers[t] IN
  /\ c.pc = "Latch"
  /\ IF c.kind = "Read" THEN CanRLatch(c.frame) ELSE CanWLatch(c.frame)
  /\ latch' = IF c.kind = "Read"
                THEN [latch EXCEPT ![c.frame].readers = @ + 1]
                ELSE [latch EXCEPT ![c.frame].writer = TRUE]
  /\ threads' = [threads EXCEPT !.callers[t].pc = "Unlatch", !.callers[t].latched = TRUE]
  /\ UNCHANGED <<poolVars, schedVars>>

\* Drop of the read or write guard: the latch is released first, then the
\* thread calls UnpinPage.
CallerUnlatch(t) ==
  LET c == threads.callers[t] IN
  /\ c.pc = "Unlatch"
  /\ latch' = IF c.kind = "Read"
                THEN [latch EXCEPT ![c.frame].readers = @ - 1]
                ELSE [latch EXCEPT ![c.frame].writer = FALSE]
  /\ threads' = [threads EXCEPT !.callers[t].pc = "Lock",
                                !.callers[t].op = "UnpinPage",
                                !.callers[t].latched = FALSE]
  /\ UNCHANGED <<poolVars, schedVars>>

CallerStep(t) ==
  \/ MutexLock(t)
  \/ CallerSchedule(t)
  \/ CallerNoIO(t)
  \/ CallerFutureGet(t)
  \/ CallerLatch(t)
  \/ CallerUnlatch(t)

callsRest == <<guards, guard_call, dirVars, trieVars>>

NextCalls ==
  \/ CallsMainNewPage /\ UNCHANGED callsRest
  \/ \E is_dirty \in BOOLEAN : CallsMainUnpinPage(is_dirty) /\ UNCHANGED callsRest
  \/ CallsMainKeepsPage /\ UNCHANGED callsRest
  \/ \E t \in Callers, page_id \in AllocatedPageIds, kind \in {"Read", "Write"} :
       CallerStart(t, "FetchPage", page_id, kind) /\ UNCHANGED callsRest
  \/ \E t \in Callers : CallerStart(t, "NewPage", INVALID_PAGE_ID, "none") /\ UNCHANGED callsRest
  \/ \E t \in Callers, page_id \in AllocatedPageIds :
       CallerStart(t, "FlushPage", page_id, "none") /\ UNCHANGED callsRest
  \/ \E t \in Callers, page_id \in AllocatedPageIds :
       CallerStart(t, "DeletePage", page_id, "none") /\ UNCHANGED callsRest
  \/ \E t \in Callers : MutexLock(t) /\ UNCHANGED callsRest
  \/ \E t \in Callers : CallerSchedule(t) /\ UNCHANGED callsRest
  \/ \E t \in Callers : CallerNoIO(t) /\ UNCHANGED callsRest
  \/ \E t \in Callers : CallerFutureGet(t) /\ UNCHANGED callsRest
  \/ \E t \in Callers : CallerLatch(t) /\ UNCHANGED callsRest
  \/ \E t \in Callers : CallerUnlatch(t) /\ UNCHANGED callsRest
  \/ \E w \in Workers : WorkerGet(w) /\ UNCHANGED <<poolVars, guardVars, dirVars, trieVars>>
  \/ \E w \in Workers : WorkerDisk(w) /\ UNCHANGED <<poolVars, guardVars, dirVars, trieVars>>
  \/ \E w \in Workers : WorkerDiskReturn(w) /\ UNCHANGED <<poolVars, guardVars, dirVars, trieVars>>
  \/ \E w \in Workers : WorkerSetValue(w) /\ UNCHANGED <<poolVars, guardVars, dirVars, trieVars>>

\* Every thread that can take a step takes one, and so does every worker.
SpecCalls ==
  /\ InitCalls
  /\ [][NextCalls]_vars
  /\ \A t \in Callers : WF_vars(CallerStep(t) /\ UNCHANGED callsRest)
  /\ \A w \in Workers : WF_vars(WorkerStep(w) /\ UNCHANGED schedRest)

(***************************************************************************)
(* The directory page of the extendible hash table.  directory holds the   *)
(* fields of the page and, in call, the last member function called; for   *)
(* one that returns a value, its argument and what it returned as well.    *)
(* local_depths_ is an array of uint8.                                     *)
(***************************************************************************)
HTABLE_DIRECTORY_ARRAY_SIZE == 2 ^ DirMaxDepth

DirIndices == 0..(HTABLE_DIRECTORY_ARRAY_SIZE - 1)

\* Bucket page ids handed to SetBucketPageId.
DirPageIds == {10}

Uint8 == 256

\* a ^ b on unsigned integers
RECURSIVE BitXor(_, _)
BitXor(a, b) ==
  IF a = 0 THEN b
  ELSE IF b = 0 THEN a
  ELSE (((a % 2) + (b % 2)) % 2) + 2 * BitXor(a \div 2, b \div 2)

\* a & b on unsigned integers
RECURSIVE BitAnd(_, _)
BitAnd(a, b) ==
  IF a = 0 \/ b = 0 THEN 0
  ELSE ((a % 2) * (b % 2)) + 2 * BitAnd(a \div 2, b \div 2)

DirCall(op, idx, result) == [op |-> op, idx |-> idx, result |-> result]

\* ExtendibleHTableDirectoryPage::Init(max_depth)
DirectoryInit(max_depth) ==
  [max_depth_ |-> max_depth,
   global_depth_ |-> 0,
   local_depths_ |-> [i \in DirIndices |-> 0],
   bucket_page_ids_ |-> [i \in DirIndices |-> INVALID_PAGE_ID],
   call |-> DirCall("Init", max_depth, TRUE)]

Size(d) == 2 ^ d.global_depth_

MaxSize(d) == 2 ^ d.max_depth_

GetGlobalDepthMask(d) == 2 ^ d.global_depth_ - 1

HashToBucketIndex(d, hash) == BitAnd(hash, GetGlobalDepthMask(d))

\* (1 << local_depth) - 1 as uint32.  The shift is an int shift: with a
\* local depth of 32 or more it is undefined, and the builds either take the
\* count modulo 32 (mask 0x7fffffff for 255) or shift everything out (mask
\* 0xffffffff).  Masks are kept modulo 2^31, where the two differ in
\* nothing but what the low bits of the index show; the second outcome is
\* given by the mask of the whole directory.
GetLocalDepthMasks(d, bucket_idx) ==
  LET local_depth == d.local_depths_[bucket_idx] IN
  IF local_depth < 31 THEN {2 ^ local_depth - 1}
  ELSE {2147483647, HTABLE_DIRECTORY_ARRAY_SIZE - 1}

\* The values GetSplitImageIndex(bucket_idx) can return.
GetSplitImageIndex(d, bucket_idx) ==
  {BitXor(bucket_idx, mask) : mask \in GetLocalDepthMasks(d, bucket_idx)}

CanShrink(d) ==
  /\ d.global_depth_ # 0
  /\ \A i \in 0..(Size(d) - 1) : d.local_depths_[i] # d.global_depth_

IncrGlobalDepth(d) ==
  IF d.global_depth_ = d.max_depth_ THEN d
  ELSE [d EXCEPT
          !.bucket_page_ids_ =
             [i \in DirIndices |->
                IF i \in Size(d)..(2 * Size(d) - 1)
                  THEN d.bucket_page_ids_[i - Size(d)]
                  ELSE d.bucket_page_ids_[i]],
          !.local_depths_ =
             [i \in DirIndices |->
                IF i \in Size(d)..(2 * Size(d) - 1)
                  THEN d.local_depths_[i - Size(d)]
                  ELSE d.local_depths_[i]],
          !.global_depth_ = d.global_depth_ + 1]

\* Mutant of DecrGlobalDepth: the second half is left as it was.
DecrGlobalDepth_KeepsEntries(d) ==
  IF ~CanShrink(d) THEN d
  ELSE [d EXCEPT !.global_depth_ = d.global_depth_ - 1]

DecrGlobalDepth(d) ==
  IF ~CanShrink(d) THEN d
  ELSE LET new_size == 2 ^ (d.global_depth_ - 1) IN
       [d EXCEPT
          !.bucket_page_ids_ =
             [i \in DirIndices |->
                IF i \in new_size..(Size(d) - 1) THEN INVALID_PAGE_ID
                ELSE d.bucket_page_ids_[i]],
          !.local_depths_ =
             [i \in DirIndices |->
                IF i \in new_size..(Size(d) - 1) THEN 0
                ELSE d.local_depths_[i]],
          !.global_depth_ = d.global_depth_ - 1]

InitDir ==
  /\ InitBufferPool
  /\ directory = DirectoryInit(DirMaxDepth)
  /\ SchedOff
  /\ GuardsOff
  /\ TrieOff

DirSetBucketPageId(bucket_idx, bucket_page_id) ==
  directory' = [directory EXCEPT
                  !.bucket_page_ids_[bucket_idx] = bucket_page_id,
                  !.call = DirCall("SetBucketPageId", 0, TRUE)]

DirGetBucketPageId(bucket_idx) ==
  directory' = [directory EXCEPT
                  !.call = DirCall("GetBucketPageId", bucket_idx,
                                   directory.bucket_page_ids_[bucket_idx])]

DirSetLocalDepth(bucket_idx, local_depth) ==
  directory' = [directory EXCEPT
                  !.local_depths_[bucket_idx] = local_depth,
                  !.call = DirCall("SetLocalDepth", 0, TRUE)]

DirIncrLocalDepth(bucket_idx) ==
  /\ \/ directory.local_depths_[bucket_idx] < MaxLocalDepth
     \/ directory.local_depths_[bucket_idx] = Uint8 - 1
  /\ directory' = [directory EXCEPT
                     !.local_depths_[bucket_idx] = (@ + 1) % Uint8,
                     !.call = DirCall("IncrLocalDepth", 0, TRUE)]

DirDecrLocalDepth(bucket_idx) ==
  /\ directory.local_depths_[bucket_idx] <= MaxLocalDepth
  /\ directory' = [directory EXCEPT
                     !.local_depths_[bucket_idx] = (@ + Uint8 - 1) % Uint8,
                     !.call = DirCall("DecrLocalDepth", 0, TRUE)]

DirIncrGlobalDepth ==
  directory' = [IncrGlobalDepth(directory) EXCEPT
                  !.call = DirCall("IncrGlobalDepth", directory.global_depth_,
                                   directory.global_depth_ # directory.max_depth_)]

\* call.idx is the global depth before the call and call.result is what
\* CanShrink returned to it.
DirDecrGlobalDepth ==
  directory' = [DecrGlobalDepth(directory) EXCEPT
                  !.call = DirCall("DecrGlobalDepth", directory.global_depth_,
                                   CanShrink(directory))]

DirCanShrink ==
  directory' = [directory EXCEPT
                  !.call = DirCall("CanShrink", directory.global_depth_,
                                   CanShrink(directory))]

DirGetSplitImageIndex(bucket_idx) ==
  \E result \in GetSplitImageIndex(directory, bucket_idx) :
    directory' = [directory EXCEPT
                    !.call = DirCall("GetSplitImageIndex", bucket_idx, result)]

DirHashToBucketIndex(hash) ==
  directory' = [directory EXCEPT
                  !.call = DirCall("HashToBucketIndex", hash,
                                   HashToBucketIndex(directory, hash))]

NextDir ==
  \/ \E i \in DirIndices, p \in DirPageIds :
       DirSetBucketPageId(i, p) /\ UNCHANGED dirRest
  \/ \E i \in DirIndices : DirGetBucketPageId(i) /\ UNCHANGED dirRest
  \/ \E i \in DirIndices, ld \in 0..MaxLocalDepth :
       DirSetLocalDepth(i, ld) /\ UNCHANGED dirRest
  \/ \E i \in DirIndices : DirIncrLocalDepth(i) /\ UNCHANGED dirRest
  \/ \E i \in DirIndices : DirDecrLocalDepth(i) /\ UNCHANGED dirRest
  \/ DirIncrGlobalDepth /\ UNCHANGED dirRest
  \/ DirDecrGlobalDepth /\ UNCHANGED dirRest
  \/ DirCanShrink /\ UNCHANGED dirRest
  \/ \E i \in DirIndices : DirGetSplitImageIndex(i) /\ UNCHANGED dirRest
  \/ \E hash \in {HTABLE_DIRECTORY_ARRAY_SIZE - 1, HTABLE_DIRECTORY_ARRAY_SIZE + 1} :
       DirHashToBucketIndex(hash) /\ UNCHANGED dirRest

SpecDir == InitDir /\ [][NextDir]_vars

(***************************************************************************)
(* The trie.  A node is a record of its children_ (a function from the     *)
(* characters that have a child to the child nodes) and its value: a       *)
(* TrieNodeWithValue<T> has a value of type T, a plain TrieNode has        *)
(* NoValue.  A pointer to a node is Null or <<node>>.  trie holds root_ of *)
(* the trie the program has, and in call the last member function called,  *)
(* with its arguments and its result.                                      *)
(***************************************************************************)
\* The keys used: the empty key, a key, an extension of it, and a sibling.
TrieKeys == {<<>>, <<"a">>, <<"a", "b">>, <<"b">>}

\* Two of the types Put and Get are instantiated for.
TrieTypes == {"uint32_t", "uint64_t"}

TrieValues == 1..MaxValue

NoValue == [type |-> "none", v |-> 0]

TrieValue(T, v) == [type |-> T, v |-> v]

NoChildren == <<>>

TrieNode(children, value) == [children_ |-> children, value_ |-> value]

\* dynamic_pointer_cast<const TrieNodeWithValue<T>>(node) is not null
IsNodeWithValue(node, T) == node.value_.type = T

\* What Get returns: a pointer to a value, nullptr, or no return at all.
ValuePtr(v) == [kind |-> "value", v |-> v]

Nullptr == [kind |-> "nullptr", v |-> 0]

Fault == [kind |-> "fault", v |-> 0]

\* What Remove gives: it throws NotImplementedException.
NotImplementedException == [kind |-> "exception", v |-> 0]

\* The walk of Get from node along key: <<node found>>, or Null.
RECURSIVE TrieFind(_, _)
TrieFind(node, key) ==
  IF key = <<>> THEN <<node>>
  ELSE IF Head(key) \in DOMAIN node.children_
         THEN TrieFind(node.children_[Head(key)], Tail(key))
         ELSE Null

\* Trie::Get<T>(key): the results it can have.  With a null root_ and a
\* key that is not empty, node->children_ dereferences a null pointer.
Get(root, key, T) ==
  IF root = Null
    THEN IF key = <<>> THEN {Nullptr} ELSE {Fault, Nullptr}
    ELSE LET node == TrieFind(root[1], key) IN
         IF node = Null THEN {Nullptr}
         ELSE IF IsNodeWithValue(node[1], T)
                THEN {ValuePtr(node[1].value_.v)}
                ELSE {Nullptr}

\* The chain of new nodes for key above current_node, built from the last
\* character to the first.
RECURSIVE NewChain(_, _)
NewChain(key, current_node) ==
  IF key = <<>> THEN current_node
  ELSE TrieNode(Head(key) :> NewChain(Tail(key), current_node), NoValue)

\* The walk of Put: it is the position in key (from 1) at which the walk
\* stopped, Len(key) + 1 when the whole key was found.
RECURSIVE PutWalk(_, _, _, _)
PutWalk(node, key, it, node_stack) ==
  IF it > Len(key) THEN [node |-> node, it |-> it, node_stack |-> node_stack]
  ELSE IF key[it] \notin DOMAIN node.children_
         THEN [node |-> node, it |-> it, node_stack |-> Append(node_stack, node)]
         ELSE PutWalk(node.children_[key[it]], key, it + 1, Append(node_stack, node))

\* Mutant of NewParent: a child the parent already has is kept.
NewParent_KeepsChild(parent, ch, current_node, T) ==
  TrieNode(parent.children_ @@ (ch :> current_node),
           IF IsNodeWithValue(parent, T) THEN parent.value_ ELSE NoValue)

\* The copy of parent whose child at ch is current_node; it has the value
\* of parent when parent is a TrieNodeWithValue<T>.
NewParent(parent, ch, current_node, T) ==
  TrieNode((ch :> current_node) @@ parent.children_,
           IF IsNodeWithValue(parent, T) THEN parent.value_ ELSE NoValue)

\* The loop that empties node_stack: the parents are copied from the
\* deepest, node_stack[i], up to the root.
RECURSIVE PutUnwind(_, _, _, _, _)
PutUnwind(node_stack, key, i, current_node, T) ==
  IF i = 0 THEN current_node
  ELSE PutUnwind(node_stack, key, i - 1,
                 NewParent(node_stack[i], key[i], current_node, T), T)

\* Trie::Put<T>(key, value): root_ of the trie it returns.
Put(root, key, T, value) ==
  IF root = Null
    THEN <<NewChain(key, TrieNode(NoChildren, TrieValue(T, value)))>>
    ELSE LET walk == PutWalk(root[1], key, 1, <<>>) IN
         IF walk.it > Len(key)
           THEN <<PutUnwind(walk.node_stack, key, Len(key),
                            TrieNode(walk.node.children_, TrieValue(T, value)), T)>>
           ELSE <<PutUnwind(walk.node_stack, key, walk.it,
                            NewChain(SubSeq(key, walk.it + 1, Len(key)),
                                     TrieNode(NoChildren, TrieValue(T, value))),
                            T)>>

TrieCall(op, key, T, value, result) ==
  [op |-> op, key |-> key, type |-> T, value |-> value, result |-> result]

\* What key holds as a T in the trie of root, for the record of a call.
Holds(root, key, T) ==
  IF root = Null THEN Nullptr ELSE CHOOSE r \in Get(root, key, T) : TRUE

\* The program has not faulted.
TrieRunning == trie.call.result.kind # "fault"

InitTrie ==
  /\ InitBufferPool
  /\ trie = [root_ |-> Null, call |-> TrieCall("none", <<>>, "none", 0, Nullptr)]
  /\ SchedOff
  /\ GuardsOff
  /\ DirOff

\* trie = trie.Put<T>(key, value); call.result is what key held as a T.
TriePut(key, T, value) ==
  /\ TrieRunning
  /\ trie' = [root_ |-> Put(trie.root_, key, T, value),
              call |-> TrieCall("Put", key, T, value, Holds(trie.root_, key, T))]

\* trie.Get<T>(key)
TrieGet(key, T) ==
  /\ TrieRunning
  /\ \E result \in Get(trie.root_, key, T) :
       trie' = [trie EXCEPT !.call = TrieCall("Get", key, T, 0, result)]

\* Trie::Remove(key): the throw is its only statement; no trie is returned
\* and the caller keeps the trie it has.
TrieRemove(key) ==
  /\ TrieRunning
  /\ trie' = [trie EXCEPT !.call = TrieCall("Remove", key, "none", 0,
                                            NotImplementedException)]

NextTrie ==
  \/ \E key \in TrieKeys, T \in TrieTypes, value \in TrieValues :
       TriePut(key, T, value) /\ UNCHANGED trieRest
  \/ \E key \in TrieKeys, T \in TrieTypes :
       TrieGet(key, T) /\ UNCHANGED trieRest
  \/ \E key \in TrieKeys : TrieRemove(key) /\ UNCHANGED trieRest

SpecTrie == InitTrie /\ [][NextTrie]_vars

(***************************************************************************)
(* The versions of a trie.  Here the nodes are objects: heap is the        *)
(* sequence of the nodes made so far (make_shared appends one), a pointer  *)
(* to a node is Null or <<its index>>, and children_ maps a character to   *)
(* the index of the child.  roots holds root_ of every Trie object the     *)
(* program has: the empty trie, and the trie each Put returned.            *)
(***************************************************************************)
\* std::make_shared<...>(node): the new heap and the pointer returned.
MakeShared(heap, node) == [heap |-> Append(heap, node), ptr |-> Len(heap) + 1]

RECURSIVE HeapFind(_, _, _)
HeapFind(heap, node, key) ==
  IF key = <<>> THEN <<node>>
  ELSE IF Head(key) \in DOMAIN heap[node].children_
         THEN HeapFind(heap, heap[node].children_[Head(key)], Tail(key))
         ELSE Null

\* Trie::Get<T>(key) on the trie of root.
HeapGet(heap, root, key, T) ==
  IF root = Null
    THEN IF key = <<>> THEN {Nullptr} ELSE {Fault, Nullptr}
    ELSE LET node == HeapFind(heap, root[1], key) IN
         IF node = Null THEN {Nullptr}
         ELSE IF IsNodeWithValue(heap[node[1]], T)
                THEN {ValuePtr(heap[node[1]].value_.v)}
                ELSE {Nullptr}

\* The nodes for key above current_node, made from the last character on.
RECURSIVE HeapNewChain(_, _, _)
HeapNewChain(heap, key, current_node) ==
  IF key = <<>> THEN [heap |-> heap, ptr |-> current_node]
  ELSE LET new_node == MakeShared(heap, TrieNode(key[Len(key)] :> current_node, NoValue)) IN
       HeapNewChain(new_node.heap, SubSeq(key, 1, Len(key) - 1), new_node.ptr)

RECURSIVE HeapPutWalk(_, _, _, _, _)
HeapPutWalk(heap, node, key, it, node_stack) ==
  IF it > Len(key) THEN [node |-> node, it |-> it, node_stack |-> node_stack]
  ELSE IF key[it] \notin DOMAIN heap[node].children_
         THEN [node |-> node, it |-> it, node_stack |-> Append(node_stack, node)]
         ELSE HeapPutWalk(heap, heap[node].children_[key[it]], key, it + 1,
                          Append(node_stack, node))

\* Mutant of HeapNewParent: the child is set in the parent itself.
HeapNewParent_InPlace(heap, parent, ch, current_node, T) ==
  [heap |-> [heap EXCEPT ![parent].children_ = (ch :> current_node) @@ @],
   ptr |-> parent]

\* new_children is a copy of the parent's children_; the new parent is a
\* new node.
HeapNewParent(heap, parent, ch, current_node, T) ==
  MakeShared(heap,
             TrieNode((ch :> current_node) @@ heap[parent].children_,
                      IF IsNodeWithValue(heap[parent], T)
                        THEN heap[parent].value_ ELSE NoValue))

RECURSIVE HeapPutUnwind(_, _, _, _, _, _)
HeapPutUnwind(heap, node_stack, key, i, current_node, T) ==
  IF i = 0 THEN [heap |-> heap, ptr |-> current_node]
  ELSE LET new_parent == HeapNewParent(heap, node_stack[i], key[i], current_node, T) IN
       HeapPutUnwind(new_parent.heap, node_stack, key, i - 1, new_parent.ptr, T)

\* Trie::Put<T>(key, value) on the trie of root: the heap after it and the
\* root_ of the trie it returns.
HeapPut(heap, root, key, T, value) ==
  IF root = Null
    THEN LET leaf == MakeShared(heap, TrieNode(NoChildren, TrieValue(T, value))) IN
         HeapNewChain(leaf.heap, key, leaf.ptr)
    ELSE LET walk == HeapPutWalk(heap, root[1], key, 1, <<>>) IN
         IF walk.it > Len(key)
           THEN LET current_node ==
                      MakeShared(heap, TrieNode(heap[walk.node].children_,
                                                TrieValue(T, value))) IN
                HeapPutUnwind(current_node.heap, walk.node_stack, key, Len(key),
                              current_node.ptr, T)
           ELSE LET leaf == MakeShared(heap, TrieNode(NoChildren, TrieValue(T, value)))
                    chain == HeapNewChain(leaf.heap,
                                          SubSeq(key, walk.it + 1, Len(key)),
                                          leaf.ptr) IN
                HeapPutUnwind(chain.heap, walk.node_stack, key, walk.it, chain.ptr, T)

\* The trie of root as a value: the nodes with their children in place of
\* the pointers to them.
RECURSIVE NodeValue(_, _)
NodeValue(heap, node) ==
  TrieNode([ch \in DOMAIN heap[node].children_ |->
              NodeValue(heap, heap[node].children_[ch])],
           heap[node].value_)

RootValue(heap, root) == IF root = Null THEN Null ELSE <<NodeValue(heap, root[1])>>

InitTrieVersions ==
  /\ InitBufferPool
  /\ trie = [heap |-> <<>>, roots |-> <<Null>>,
             call |-> TrieCall("none", <<>>, "none", 0, Nullptr)]
  /\ SchedOff
  /\ GuardsOff
  /\ DirOff

\* roots[Len(roots) + 1] = roots[version].Put<T>(key, value); the value is
\* the number of the call.  call.value is the version Put was called on.
TrieVersionPut(version, key, T) ==
  /\ Len(trie.roots) <= MaxPuts
  /\ LET put == HeapPut(trie.heap, trie.roots[version], key, T, Len(trie.roots)) IN
     trie' = [heap |-> put.heap,
              roots |-> Append(trie.roots, <<put.ptr>>),
              call |-> TrieCall("Put", key, T, version, Nullptr)]

NextTrieVersions ==
  \E version \in 1..(MaxPuts + 1), key \in TrieKeys, T \in TrieTypes :
    /\ version <= Len(trie.roots)
    /\ TrieVersionPut(version, key, T)
    /\ UNCHANGED trieRest

SpecTrieVersions == InitTrieVersions /\ [][NextTrieVersions]_vars

(***************************************************************************)
(* Claims about the buffer pool manager.                                   *)
(***************************************************************************)

\* Whether the last call took a victim from the replacer.
TookVictim == call.victim.frame # -1

\* C1: when NewPage or a FetchPage miss takes a dirty victim from the
\* replacer, the victim's buffer is on disk under the victim's page id once
\* the call has returned: no dirty page leaves the pool unwritten.
C1_DirtyVictimWritten ==
  (TookVictim /\ call.victim.is_dirty) => disk[call.victim.page_id] = call.victim.data

\* C1, for NewPage alone: the dirty victim of NewPage is written out.
C1_NewPageWritesVictim ==
  (call.op = "NewPage" /\ TookVictim /\ call.victim.is_dirty)
     => disk[call.victim.page_id] = call.victim.data

\* A dirty victim whose buffer differs from the disk was taken by NewPage.
C1_NewPageWitness ==
  /\ call.op = "NewPage"
  /\ TookVictim
  /\ call.victim.is_dirty
  /\ call.victim.data # 0

\* The frames the page table maps a page to.
MappedFrames == {page_table_[p] : p \in DOMAIN page_table_}

\* The frames in the free list.
FreeFrames == {free_list_[i] : i \in 1..Len(free_list_)}

\* C2: free_list.size + page_table.size = pool_size, the frames in the page
\* table are pairwise distinct frame ids of the pool, and no frame is both in
\* the free list and in the page table.
C2_FrameAccounting ==
  /\ Len(free_list_) + Cardinality(DOMAIN page_table_) = PoolSize
  /\ \A p, q \in DOMAIN page_table_ : p # q => page_table_[p] # page_table_[q]
  /\ MappedFrames \subseteq 0..(PoolSize - 1)
  /\ MappedFrames \cap FreeFrames = {}

\* A page was deleted while another page stays mapped and, before that, a
\* frame was reused: both the free list and the page table hold a frame.
C2_Witness ==
  /\ call.op = "DeletePage"
  /\ call.ret = "true"
  /\ call.frame # -1
  /\ page_table_ # <<>>
  /\ next_page_id_ > PoolSize

\* The replacer holds a node for frame f that is flagged evictable.
IsEvictableFrame(r, f) == f \in DOMAIN r.node_store_ /\ r.node_store_[f].is_evictable_

\* A pinned frame holds a page that the page table maps to it, and the
\* replacer tracks it as non-evictable.
PinnedFramesProtected ==
  \A f \in Frames :
    pages_[f].pin_count_ > 0 =>
      /\ pages_[f].page_id_ \in DOMAIN page_table_
      /\ page_table_[pages_[f].page_id_] = f
      /\ f \in DOMAIN replacer_.node_store_
      /\ ~IsEvictableFrame(replacer_, f)

\* A step leaves every pinned frame with its page, and lowers its pin count
\* only by one, through UnpinPage of that page.
PinnedFramesKept ==
  \A f \in Frames :
    pages_[f].pin_count_ > 0 =>
      /\ pages_'[f].page_id_ = pages_[f].page_id_
      /\ pages_[f].page_id_ \in DOMAIN page_table_'
      /\ page_table_'[pages_[f].page_id_] = f
      /\ pages_'[f].pin_count_ < pages_[f].pin_count_ =>
           /\ call'.op = "UnpinPage"
           /\ call'.arg = pages_[f].page_id_
           /\ pages_'[f].pin_count_ = pages_[f].pin_count_ - 1

\* C3: a frame with pin_count > 0 is never the victim of an eviction; from
\* the call that pins a page until UnpinPage brings its pin count to 0, the
\* page stays mapped to the same frame and the frame is non-evictable.
C3_PinnedNeverEvicted ==
  /\ [](PinnedFramesProtected /\ (TookVictim => call.victim.pin_count = 0))
  /\ [][PinnedFramesKept]_vars

\* A victim was taken while another frame of the pool was pinned.
C3_Witness ==
  /\ TookVictim
  /\ \E f \in Frames : f # call.victim.frame /\ pages_[f].pin_count_ > 1

\* C4: NewPage, and FetchPage of a page that is not resident, return null
\* exactly when the free list is empty and no frame is evictable, and then
\* leave the pool, the replacer and next_page_id as they were.
C4_NullExactlyWhenExhausted ==
  [][(call'.op = "NewPage" \/ (call'.op = "FetchPage" /\ call'.arg \notin DOMAIN page_table_))
       => /\ (call'.ret = "nullptr")
               <=> (free_list_ = <<>> /\ ~\E f \in Frames : IsEvictableFrame(replacer_, f))
          /\ (call'.ret = "nullptr")
               => UNCHANGED <<replacer_, pages_, page_table_, free_list_, next_page_id_, disk>>
    ]_vars

\* FetchPage of a page that is not resident returned null.
C4_Witness ==
  /\ call.op = "FetchPage"
  /\ call.ret = "nullptr"
  /\ call.arg \notin DOMAIN page_table_

\* The nodes of replacer r keep their flags, except frame f whose flag becomes e.
OnlyFlagOf(r, s, f, e) ==
  /\ DOMAIN s.node_store_ = DOMAIN r.node_store_
  /\ \A g \in DOMAIN r.node_store_ :
       s.node_store_[g] = IF g = f THEN [r.node_store_[g] EXCEPT !.is_evictable_ = e]
                                   ELSE r.node_store_[g]
  /\ s.current_timestamp_ = r.current_timestamp_

\* C5: UnpinPage returns false and changes nothing when the page is not
\* mapped or its pin count is 0; otherwise it lowers the pin count by one,
\* ORs is_dirty into the dirty flag, marks the frame evictable exactly when
\* the pin count has reached 0, and returns true.  No pin count is negative.
C5_UnpinPage ==
  /\ [](\A f \in Frames : pages_[f].pin_count_ >= 0)
  /\ [][call'.op = "UnpinPage" =>
          LET p == call'.arg IN
          IF p \notin DOMAIN page_table_ \/ pages_[page_table_[p]].pin_count_ = 0
            THEN /\ call'.ret = "false"
                 /\ UNCHANGED <<replacer_, pages_, page_table_, free_list_, next_page_id_, disk>>
            ELSE LET f == page_table_[p] IN
                 /\ call'.ret = "true"
                 /\ pages_' = [pages_ EXCEPT
                                 ![f].pin_count_ = pages_[f].pin_count_ - 1,
                                 ![f].is_dirty_ = (pages_[f].is_dirty_ \/ call'.flag)]
                 /\ OnlyFlagOf(replacer_, replacer_', f, pages_[f].pin_count_ = 1)
                 /\ LRUKReplacer_Size(replacer_') = Cardinality(EvictCandidates(replacer_'))
                 /\ UNCHANGED <<page_table_, free_list_, next_page_id_, disk>>
      ]_vars

\* UnpinPage of a mapped page whose pin count was 0 already returned false.
C5_Witness ==
  /\ call.op = "UnpinPage"
  /\ call.ret = "false"
  /\ call.arg \in DOMAIN page_table_
  /\ pages_[page_table_[call.arg]].pin_count_ = 0

\* C6: DeletePage returns true with no change when the page is not mapped,
\* false with no change when it is pinned; otherwise it unmaps the page,
\* resets the frame (INVALID_PAGE_ID, pin count 0, clean, zeroed buffer),
\* appends the frame to the free list and returns true.
C6_DeletePage ==
  [][call'.op = "DeletePage" =>
       LET p == call'.arg IN
       IF p \notin DOMAIN page_table_
         THEN /\ call'.ret = "true"
              /\ UNCHANGED <<replacer_, pages_, page_table_, free_list_, next_page_id_, disk>>
         ELSE LET f == page_table_[p] IN
              IF pages_[f].pin_count_ > 0
                THEN /\ call'.ret = "false"
                     /\ UNCHANGED <<replacer_, pages_, page_table_, free_list_, next_page_id_,
                                    disk>>
                ELSE /\ call'.ret = "true"
                     /\ DOMAIN page_table_' = DOMAIN page_table_ \ {p}
                     /\ \A q \in DOMAIN page_table_' : page_table_'[q] = page_table_[q]
                     /\ pages_' = [pages_ EXCEPT ![f] = EmptyPage]
                     /\ free_list_' = free_list_ \o <<f>>
                     /\ UNCHANGED <<next_page_id_, disk>>
    ]_vars

\* DeletePage freed a frame, and before it a caller had written into a page.
C6_Witness ==
  /\ call.op = "DeletePage"
  /\ call.ret = "true"
  /\ call.frame # -1
  /\ free_list_ # <<>>
  /\ pages_[call.frame] = EmptyPage
  /\ \E p \in PageIds : disk[p] # 0

(***************************************************************************)
(* Claims about the replacer.                                              *)
(***************************************************************************)

\* The evictable nodes of replacer r, read off the node store.
EvictableNodes(r) == {f \in DOMAIN r.node_store_ : r.node_store_[f].is_evictable_}

\* The number of accesses in the history of frame f's node.
Accesses(r, f) == Len(r.node_store_[f].history_)

\* The evictable nodes of r with fewer than K accesses.
ShortHistoryNodes(r) == {f \in EvictableNodes(r) : Accesses(r, f) < ReplacerK}

\* The timestamp of the first access in the history of frame f's node.
FirstTimestamp(r, f) == r.node_store_[f].history_[1].timestamp_

\* C7: if an evictable node has fewer than K accesses, Evict returns such a
\* node, the one whose earliest timestamp is smallest, also when other
\* evictable nodes have K accesses.
C7_EvictShortHistoryFirst ==
  [][(call'.op = "Evict" /\ ShortHistoryNodes(replacer_) # {}) =>
       /\ call'.ret = "true"
       /\ call'.frame \in ShortHistoryNodes(replacer_)
       /\ \A g \in ShortHistoryNodes(replacer_) :
            FirstTimestamp(replacer_, call'.frame) <= FirstTimestamp(replacer_, g)
       /\ call'.frame \notin DOMAIN replacer_'.node_store_
    ]_vars

\* Evict returned a node with fewer than K accesses and left an evictable
\* node with K accesses in the store.
C7_Witness ==
  /\ call.op = "Evict"
  /\ call.ret = "true"
  /\ call.arg < ReplacerK
  /\ \E g \in EvictableNodes(replacer_) : Accesses(replacer_, g) = ReplacerK

RECURSIVE SumWeights(_)
SumWeights(history) ==
  IF history = <<>> THEN 0 ELSE Head(history).weight_ + SumWeights(Tail(history))

\* total_weight * (current_timestamp - timestamp of the K-th most recent
\* access) / K for frame f's node, which has K accesses in its history.
WeightedDistance(r, f) ==
  LET h == r.node_store_[f].history_ IN
  (SumWeights(h) * (r.current_timestamp_ - h[Len(h) - ReplacerK + 1].timestamp_)) \div ReplacerK

\* The weight of an access by its type.
WeightOf(type) ==
  IF type = "Scan" THEN 2 ELSE IF type = "Lookup" THEN 3 ELSE 1

\* C8: when every evictable node has K accesses, Evict returns the evictable
\* node of largest weighted K-back distance, the distance being total_weight
\* * (current_timestamp - K-th most recent timestamp) / K in integers, with
\* total_weight the sum of the weights of the last K accesses and weights
\* Unknown = Index = 1, Scan = 2, Lookup = 3.
C8_EvictLargestWeightedDistance ==
  /\ [][(/\ call'.op = "Evict"
         /\ EvictableNodes(replacer_) # {}
         /\ ShortHistoryNodes(replacer_) = {}) =>
          /\ call'.ret = "true"
          /\ call'.frame \in EvictableNodes(replacer_)
          /\ \A g \in EvictableNodes(replacer_) :
               WeightedDistance(replacer_, g) <= WeightedDistance(replacer_, call'.frame)
       ]_vars
  /\ [][(call'.op = "RecordAccess" /\ call'.ret = "ok") =>
          \E f \in DOMAIN replacer_'.node_store_ :
            LET h == replacer_'.node_store_[f].history_ IN
            /\ h[Len(h)] = [timestamp_ |-> replacer_.current_timestamp_,
                            weight_ |-> WeightOf(call'.type)]
            /\ replacer_'.node_store_[f].total_weight_ = SumWeights(h)
            /\ Len(h) <= ReplacerK
       ]_vars

\* Evict returned a node with K accesses and left another evictable node
\* whose accesses were not all of weight 1.
C8_Witness ==
  /\ call.op = "Evict"
  /\ call.ret = "true"
  /\ call.arg = ReplacerK
  /\ \E g \in EvictableNodes(replacer_) :
       /\ Accesses(replacer_, g) = ReplacerK
       /\ SumWeights(replacer_.node_store_[g].history_) > ReplacerK

\* C9: Size() is the number of nodes flagged evictable, whatever calls were
\* made, failing ones included; SetEvictable with the flag the node has
\* already leaves Size as it is.
C9_SizeCountsEvictable ==
  /\ [](LRUKReplacer_Size(replacer_) = Cardinality(EvictableNodes(replacer_)))
  /\ [][(/\ call'.op = "SetEvictable"
         /\ call'.arg \in DOMAIN replacer_.node_store_
         /\ call'.flag = replacer_.node_store_[call'.arg].is_evictable_)
          => LRUKReplacer_Size(replacer_') = LRUKReplacer_Size(replacer_)
       ]_vars

\* A Remove failed on a non-evictable node while another node was evictable.
C9_Witness ==
  /\ call.op = "Remove"
  /\ call.ret = "invalid_argument"
  /\ LRUKReplacer_Size(replacer_) > 0

\* C10: RecordAccess of a frame id >= capacity fails with invalid argument,
\* Remove of an existing non-evictable frame fails, Remove of an absent frame
\* is a no-op; each leaves the replacer's state as it was.
C10_FailuresChangeNothing ==
  [][/\ (call'.op = "RecordAccess" /\ call'.arg >= NumFrames)
          => (call'.ret = "invalid_argument" /\ replacer_' = replacer_)
     /\ (/\ call'.op = "Remove"
         /\ call'.arg \in DOMAIN replacer_.node_store_
         /\ ~replacer_.node_store_[call'.arg].is_evictable_)
          => (call'.ret = "invalid_argument" /\ replacer_' = replacer_)
     /\ (call'.op = "Remove" /\ call'.arg \notin DOMAIN replacer_.node_store_)
          => (call'.ret = "ok" /\ replacer_' = replacer_)
    ]_vars

\* RecordAccess of the out-of-range frame id failed on a replacer that
\* holds nodes.
C10_Witness ==
  /\ call.op = "RecordAccess"
  /\ call.arg >= NumFrames
  /\ call.ret = "invalid_argument"
  /\ replacer_.node_store_ # <<>>
  /\ replacer_.current_timestamp_ > 0

(***************************************************************************)
(* Claims about the disk scheduler.                                        *)
(***************************************************************************)

\* The DiskManager call the worker has to make for a request.
DiskCallOf(r) ==
  [op |-> IF r.is_write_ THEN "WritePage" ELSE "ReadPage", page_id |-> r.page_id_]

\* At most one worker has taken the request, at most one DiskManager call
\* was made for it, the right one, by a worker that took it, and its
\* callback_ was fulfilled at most once, with true, after that call returned.
HandledOnce(id) ==
  LET p == promises[id] IN
  /\ Len(p.taken_by) <= 1
  /\ Len(p.disk_calls) <= Len(p.taken_by)
  /\ \A i \in DOMAIN p.disk_calls : p.disk_calls[i] = DiskCallOf(p.request)
  /\ p.returned <= Len(p.disk_calls)
  /\ Len(p.set_value) <= p.returned
  /\ \A i \in DOMAIN p.set_value : p.set_value[i] = TRUE

\* The request went all the way: taken, one disk call, fulfilled.
Completed(id) ==
  /\ id \in DOMAIN promises
  /\ Len(promises[id].taken_by) = 1
  /\ Len(promises[id].disk_calls) = 1
  /\ promises[id].returned = 1
  /\ promises[id].set_value = <<TRUE>>

\* C11: every request passed to Schedule is eventually taken by exactly one
\* worker, which makes exactly one DiskManager call for the request's page id
\* (WritePage if is_write, else ReadPage) and then fulfils the completion
\* signal with true exactly once, never before the disk call has returned.
C11_RequestHandledOnce ==
  /\ [](\A id \in DOMAIN promises : HandledOnce(id))
  /\ \A id \in 1..MaxRequests : [](id \in DOMAIN promises => <>Completed(id))

\* A write and a read were scheduled, two workers were inside the
\* DiskManager at once, and both requests are completed.
C11_Witness ==
  /\ \A id \in 1..MaxRequests : Completed(id)
  /\ \E id1, id2 \in DOMAIN promises :
       /\ promises[id1].request.is_write_
       /\ ~promises[id2].request.is_write_
       /\ promises[id1].taken_by # promises[id2].taken_by

\* C12: the destructor puts exactly one sentinel per worker and joins all
\* workers; each worker exits after consuming exactly one sentinel; every
\* request scheduled before the destructor started is completed before the
\* destructor returns; and the destructor, once started, always returns, with
\* all workers exited.
C12_Shutdown ==
  /\ [](/\ scheduler.sentinels_put <= NumWorkers
        /\ \A w \in Workers :
             /\ worker_threads_[w].sentinels <= 1
             /\ (worker_threads_[w].pc = "Exited") <=> (worker_threads_[w].sentinels = 1)
        /\ scheduler.pc \in {"join", "done"} => scheduler.sentinels_put = NumWorkers
        /\ scheduler.pc = "done" =>
             /\ scheduler.joined = NumWorkers
             /\ \A w \in Workers : worker_threads_[w].pc = "Exited"
             /\ \A id \in DOMAIN promises : Completed(id)
             /\ request_queue_ = <<>>)
  /\ [](scheduler.pc = "put" => <>(scheduler.pc = "done"))

\* The destructor has returned; when it started, requests were still in the
\* queue or with a worker.
C12_Witness ==
  /\ scheduler.pc = "done"
  /\ scheduler.pending_at_dtor >= 2
  /\ \A w \in Workers : worker_threads_[w].pc = "Exited"

(***************************************************************************)
(* Claims about the page guards.                                           *)
(***************************************************************************)

\* The guards that own frame f: alive, with bpm_ and page_ set, page_ = &pages_[f].
OwnersOf(f) ==
  {g \in GuardIds : /\ guards[g].life = "alive"
                    /\ ~BasicPageGuard_IsEmpty(guards[g])
                    /\ FrameOf(guards[g].page_) = f}

\* The last operation was a Drop or a destructor.
IsRelease(c) == c.op \in {"Drop", "Destroy"}

\* How many times UnpinPage is in the calls of an operation.
Unpins(events) == Cardinality({i \in DOMAIN events : events[i] = "UnpinPage"})

\* A move or an upgrade from guard that (to the next unborn guard): no call
\* is made, the pool is as before, that is empty afterwards and the new guard
\* has that's page.
TransfersOwnership(that) ==
  /\ guard_call'.events = <<>>
  /\ UNCHANGED <<replacer_, bpmVars>>
  /\ BasicPageGuard_IsEmpty(guards'[that])
  /\ \E g \in GuardIds :
       /\ guards[g].life = "unborn"
       /\ guards'[g].life = "alive"
       /\ guards'[g].page_ = guards[that].page_
       /\ guards'[g].bpm_ = guards[that].bpm_

\* A Drop or a destructor of guard g that owns a frame: UnpinPage is called
\* once, for the page in the frame, the pin count drops by one and a guard
\* that lives on is empty.
ReleasesPin(g) ==
  LET f == FrameOf(guards[g].page_) IN
  /\ Unpins(guard_call'.events) = 1
  /\ call'.op = "UnpinPage"
  /\ call'.arg = pages_[f].page_id_
  /\ call'.ret = "true"
  /\ pages_'[f].pin_count_ = pages_[f].pin_count_ - 1
  /\ \A h \in Frames \ {f} : pages_'[h] = pages_[h]
  /\ BasicPageGuard_IsEmpty(guards'[g])

\* C13: for a pin wrapped in a BasicPageGuard, across moves, Drops, upgrades
\* and destructors UnpinPage is issued exactly once, by the guard that owns
\* the frame at the end: every pin is owned by exactly one guard, a move or an
\* upgrade leaves the pin count as it is and empties its source, the Drop or
\* destructor of the owner issues one UnpinPage (with the guard's is_dirty_
\* for a Basic guard) that lowers the pin count by one, and the Drop or
\* destructor of an empty Basic guard issues none.
C13_UnpinExactlyOnce ==
  /\ [](\A f \in Frames : pages_[f].pin_count_ = Cardinality(OwnersOf(f)))
  /\ [][\A g \in GuardIds :
          /\ (guard_call'.op \in {"MoveConstruct", "Upgrade"} /\ guard_call'.guard = g)
               => TransfersOwnership(g)
          /\ (/\ IsRelease(guard_call')
              /\ guard_call'.guard = g
              /\ guard_call'.fault = "none")
               => IF BasicPageGuard_IsEmpty(guards[g])
                    THEN /\ Unpins(guard_call'.events) = 0
                         /\ UNCHANGED <<replacer_, bpmVars, call>>
                    ELSE /\ ReleasesPin(g)
                         /\ guards[g].kind = "Basic" => call'.flag = guards[g].is_dirty_
       ]_vars

\* A Basic guard was moved, the moved-from guard was destroyed, and then the
\* guard that owned the frame was dropped: the page's pin count is 0.
C13_Witness ==
  /\ guard_call.op = "Drop"
  /\ guard_call.guard = 2
  /\ guard_call.events = <<"UnpinPage">>
  /\ guards[1].life = "destroyed"
  /\ guards[2].kind = "Basic"
  /\ call.op = "UnpinPage"
  /\ call.ret = "true"
  /\ pages_[call.frame].pin_count_ = 0

\* C14: the Drop or the destructor of an empty guard of any variant never
\* fails, releases no latch and unpins nothing.
C14_EmptyGuardDropHarmless ==
  [][\A g \in GuardIds :
       (/\ IsRelease(guard_call')
        /\ guard_call'.guard = g
        /\ BasicPageGuard_IsEmpty(guards[g]))
         => /\ guard_call'.fault = "none"
            /\ guard_call'.events = <<>>
            /\ UNCHANGED <<replacer_, bpmVars, latch>>
    ]_vars

\* C14 for the Basic variant alone, where it holds.
C14_EmptyBasicGuardDropHarmless ==
  [][\A g \in GuardIds :
       (/\ IsRelease(guard_call')
        /\ guard_call'.guard = g
        /\ guards[g].kind = "Basic"
        /\ BasicPageGuard_IsEmpty(guards[g]))
         => /\ guard_call'.fault = "none"
            /\ guard_call'.events = <<>>
            /\ UNCHANGED <<replacer_, bpmVars, latch>>
    ]_vars

\* C15: on drop a Read guard releases the read latch and then unpins, a
\* Write guard releases the write latch and then unpins with is_dirty = true
\* whatever its flag was; the unpin of a guard never precedes the release of
\* its latch.
C15_LatchReleasedBeforeUnpin ==
  [][\A g \in GuardIds :
       (/\ IsRelease(guard_call')
        /\ guard_call'.guard = g
        /\ ~BasicPageGuard_IsEmpty(guards[g]))
         => LET f == FrameOf(guards[g].page_) IN
            /\ guards[g].kind = "Read" =>
                 /\ guard_call'.events = <<"RUnlatch", "UnpinPage">>
                 /\ latch'[f].readers = latch[f].readers - 1
                 /\ call'.op = "UnpinPage"
                 /\ call'.arg = pages_[f].page_id_
                 /\ call'.flag = guards[g].is_dirty_
            /\ guards[g].kind = "Write" =>
                 /\ guard_call'.events = <<"WUnlatch", "UnpinPage">>
                 /\ latch[f].writer
                 /\ ~latch'[f].writer
                 /\ call'.op = "UnpinPage"
                 /\ call'.arg = pages_[f].page_id_
                 /\ call'.flag = TRUE
                 /\ pages_'[f].is_dirty_
            /\ guards[g].kind = "Basic" =>
                 /\ guard_call'.events = <<"UnpinPage">>
                 /\ latch' = latch
    ]_vars

\* A Write guard whose flag was false was destroyed: the latch was released,
\* then the page was unpinned as dirty.
C15_Witness ==
  /\ guard_call.op = "Destroy"
  /\ guard_call.events = <<"WUnlatch", "UnpinPage">>
  /\ ~guard_call.was_dirty
  /\ call.op = "UnpinPage"
  /\ call.flag
  /\ pages_[call.frame].is_dirty_
  /\ ~latch[call.frame].writer

\* All the threads of MultiWriterTest have finished (the joins have returned).
AllThreadsDone == \A t \in Threads : threads[t].pc = "Done"

\* C16: N threads each fetch the same resident page, take its write latch,
\* wrap it in a WritePageGuard and append one mark by read-modify-write: in
\* every interleaving the final content holds exactly N marks, and once all
\* threads have finished the pin count is what it was before they started
\* (the main thread's one pin).
C16_NoLostUpdate ==
  AllThreadsDone =>
    /\ pages_[WritersFrame].data_ = NumThreads
    /\ pages_[WritersFrame].pin_count_ = 1
    /\ pages_[WritersFrame].page_id_ = PageIdTemp
    /\ latch[WritersFrame] = FreeLatch

\* All threads have finished; at some point every thread had fetched the
\* page before any had released it (the last access is the N+1st), so they
\* contended for the latch.
C16_Witness ==
  /\ AllThreadsDone
  /\ pages_[WritersFrame].data_ = NumThreads
  /\ pages_[WritersFrame].is_dirty_
  /\ replacer_.current_timestamp_ = NumThreads + 1

\* C17: for every bucket index idx, GetSplitImageIndex(idx) is
\* idx XOR (1 << local_depth[idx]): it differs from idx in exactly the bit
\* at position local_depth[idx].
C17_SplitImageFlipsOneBit ==
  (/\ directory.call.op = "GetSplitImageIndex"
   /\ directory.local_depths_[directory.call.idx] < 31) =>
    directory.call.result =
      BitXor(directory.call.idx, 2 ^ directory.local_depths_[directory.call.idx])

\* What GetSplitImageIndex does return for a local depth an int shift
\* allows: idx XOR ((1 << local_depth[idx]) - 1), every bit below position
\* local_depth[idx] flipped.
C17_SplitImageFlipsLowBits ==
  (/\ directory.call.op = "GetSplitImageIndex"
   /\ directory.local_depths_[directory.call.idx] < 31) =>
    directory.call.result =
      BitXor(directory.call.idx,
             2 ^ directory.local_depths_[directory.call.idx] - 1)

\* What DecrGlobalDepth may do to the page d to give the page e.
DecrGlobalDepthChange(d, e) ==
  IF CanShrink(d)
    THEN LET new_size == 2 ^ (d.global_depth_ - 1) IN
         /\ e.global_depth_ = d.global_depth_ - 1
         /\ e.max_depth_ = d.max_depth_
         /\ \A i \in 0..(new_size - 1) :
              /\ e.bucket_page_ids_[i] = d.bucket_page_ids_[i]
              /\ e.local_depths_[i] = d.local_depths_[i]
         /\ \A i \in new_size..(Size(d) - 1) :
              /\ e.bucket_page_ids_[i] = INVALID_PAGE_ID
              /\ e.local_depths_[i] = 0
    ELSE /\ e.global_depth_ = d.global_depth_
         /\ e.max_depth_ = d.max_depth_
         /\ e.bucket_page_ids_ = d.bucket_page_ids_
         /\ e.local_depths_ = d.local_depths_

\* C18: DecrGlobalDepth changes the directory only when CanShrink is true;
\* then it decrements global_depth by exactly one, leaves the entries of the
\* new active region [0, new Size) as they were and clears every entry of
\* the former second half to INVALID_PAGE_ID with local depth 0.  When
\* CanShrink is false (as it is at global_depth = 0) the page is unchanged,
\* so 0 <= global_depth <= max_depth holds whatever is called.
C18_DecrGlobalDepth ==
  /\ [](directory.global_depth_ \in 0..directory.max_depth_)
  /\ [][directory'.call.op = "DecrGlobalDepth" =>
          DecrGlobalDepthChange(directory, directory')]_vars

\* DecrGlobalDepth has just shrunk a directory of global depth 2 whose first
\* entry holds a bucket of local depth 1: the entry is kept and the former
\* second half is cleared.
C18_Witness ==
  /\ directory.call = DirCall("DecrGlobalDepth", 2, TRUE)
  /\ directory.global_depth_ = 1
  /\ directory.bucket_page_ids_[0] = 10
  /\ directory.local_depths_[0] = 1
  /\ directory.bucket_page_ids_[2] = INVALID_PAGE_ID
  /\ directory.local_depths_[2] = 0

\* The pairwise condition: the two halves of the active region agree.
PairwiseCanShrink(d) ==
  /\ d.global_depth_ > 0
  /\ \A i \in 0..(Size(d) \div 2 - 1) :
       /\ d.bucket_page_ids_[i] = d.bucket_page_ids_[i + Size(d) \div 2]
       /\ d.local_depths_[i] = d.local_depths_[i + Size(d) \div 2]

\* C19: CanShrink returns true when global_depth > 0 and, for every i in
\* [0, Size/2), entries i and i + Size/2 hold the same bucket page id and
\* the same local depth.
C19_CanShrinkWhenHalvesAgree ==
  (/\ directory.call.op = "CanShrink"
   /\ PairwiseCanShrink(directory)) => directory.call.result

\* The second half of C19 (not a claim of its own): in every directory
\* reachable through the member functions the pairwise condition holds
\* exactly when no active entry has local_depth = global_depth.
C19_VariantsEquivalent ==
  PairwiseCanShrink(directory) <=> CanShrink(directory)

\* C20: for every trie t (the empty trie too), every key k (the empty key,
\* and keys that are prefixes or extensions of keys of t, too) and values
\* v, v2 of type T: t.Put(k, v).Get<T>(k) returns v, and
\* t.Put(k, v).Put(k, v2).Get<T>(k) returns v2.  Here trie is t.Put(k, v)
\* for the last call Put<T>(k, v).
C20_PutGetRoundTrip ==
  trie.call.op = "Put" =>
    /\ Get(trie.root_, trie.call.key, trie.call.type) = {ValuePtr(trie.call.value)}
    /\ \A v2 \in TrieValues :
         Get(Put(trie.root_, trie.call.key, trie.call.type, v2),
             trie.call.key, trie.call.type) = {ValuePtr(v2)}

\* Put("a", 2) has just replaced the value 1 of "a" in a trie that holds
\* the empty key, which is a prefix of "a", and "ab", which extends it.
C20_Witness ==
  /\ trie.call = TrieCall("Put", <<"a">>, "uint32_t", 2, ValuePtr(1))
  /\ Holds(trie.root_, <<>>, "uint32_t") # Nullptr
  /\ Holds(trie.root_, <<"a", "b">>, "uint32_t") # Nullptr
  /\ Holds(trie.root_, <<"a">>, "uint32_t") = ValuePtr(2)

\* The keys a Get is called with: the keys put, and a key no Put uses.
GetKeys == TrieKeys \cup {<<"b", "a">>}

\* C21: Put never changes the trie it is called on.  For t2 = t1.Put(k, v),
\* every Get on t1 (on every version there is), for k and for every other
\* key, returns after the Put what it returned before, and no node there
\* was before the Put is modified.
C21_PutLeavesVersionsAlone ==
  [][trie'.call.op = "Put" =>
       /\ \A version \in 1..Len(trie.roots) :
            /\ trie'.roots[version] = trie.roots[version]
            /\ \A key \in GetKeys, T \in TrieTypes :
                 HeapGet(trie'.heap, trie'.roots[version], key, T)
                   = HeapGet(trie.heap, trie.roots[version], key, T)
       /\ \A node \in 1..Len(trie.heap) : trie'.heap[node] = trie.heap[node]
       /\ RootValue(trie'.heap, trie'.roots[Len(trie'.roots)])
            = Put(RootValue(trie.heap, trie.roots[trie'.call.value]),
                  trie'.call.key, trie'.call.type, Len(trie.roots))]_vars

\* The last Put, on the trie the Put before it returned, replaced the value
\* of "a": the older trie still gives its own value, and the two share the
\* node of "b".
C21_Witness ==
  /\ Len(trie.roots) = 4
  /\ trie.call = TrieCall("Put", <<"a">>, "uint32_t", 3, Nullptr)
  /\ HeapGet(trie.heap, trie.roots[3], <<"a">>, "uint32_t") = {ValuePtr(2)}
  /\ HeapGet(trie.heap, trie.roots[4], <<"a">>, "uint32_t") = {ValuePtr(3)}
  /\ HeapGet(trie.heap, trie.roots[2], <<"b">>, "uint32_t") = {ValuePtr(1)}
  /\ "b" \in DOMAIN trie.heap[trie.roots[3][1]].children_
  /\ "b" \in DOMAIN trie.heap[trie.roots[4][1]].children_
  /\ trie.heap[trie.roots[3][1]].children_["b"] = trie.heap[trie.roots[4][1]].children_["b"]

\* C22: Get returns None, and does not fail, whenever the key has no value
\* of the requested type in the trie: a child is missing on the path, the
\* terminal node has no value or one of another type, or the trie is empty.
C22_GetNoneWhenAbsent ==
  (/\ trie.call.op = "Get"
   /\ Holds(trie.root_, trie.call.key, trie.call.type) = Nullptr)
    => trie.call.result = Nullptr

\* C22 for a trie with a root (not a claim of its own): there Get returns
\* None for a key without a value of the type.
C22_GetNoneWhenAbsentWithRoot ==
  (/\ trie.call.op = "Get"
   /\ trie.root_ # Null
   /\ Holds(trie.root_, trie.call.key, trie.call.type) = Nullptr)
    => trie.call.result = Nullptr

\* C23: Remove(key) returns a new trie in which Get(key) is None (and the
\* other keys are as they were).  Here trie is what the caller has after
\* trie = trie.Remove(key).
C23_RemoveReturnsTrieWithoutKey ==
  trie.call.op = "Remove" =>
    /\ trie.call.result.kind # "exception"
    /\ \A T \in TrieTypes : Holds(trie.root_, trie.call.key, T) = Nullptr

\* C24: Put leaves every other key of the new version untouched: for every
\* trie t, key k, value v and key k2 # k, t.Put(k, v).Get<U>(k2) is
\* t.Get<U>(k2) for every value type U, also when k2 is a proper prefix of k
\* and holds a value of another type than v.
C24_PutLeavesOtherKeys ==
  [][trie'.call.op = "Put" =>
       \A k2 \in TrieKeys \ {trie'.call.key}, U \in TrieTypes :
         Holds(trie'.root_, k2, U) = Holds(trie.root_, k2, U)]_vars

\* C24 for the values of the type of v (not a claim of its own): those of
\* the other keys are kept.
C24_PutLeavesOtherKeysOfItsType ==
  [][trie'.call.op = "Put" =>
       \A k2 \in TrieKeys \ {trie'.call.key} :
         Holds(trie'.root_, k2, trie'.call.type) = Holds(trie.root_, k2, trie'.call.type)]_vars

\* C25: the pool and the replacer agree on what is evictable: after any
\* sequence of NewPage, FetchPage, UnpinPage and DeletePage calls the
\* replacer's Size() is the number of frames mapped in page_table_ with
\* pin count 0, and no frame of the free list is tracked by the replacer.
C25_ReplacerAgreesWithPool ==
  /\ LRUKReplacer_Size(replacer_)
       = Cardinality({f \in MappedFrames : pages_[f].pin_count_ = 0})
  /\ \A f \in FreeFrames : f \notin DOMAIN replacer_.node_store_

\* C25 as long as DeletePage has freed no frame (not a claim of its own).
C25_ReplacerAgreesBeforeDelete ==
  (\A f \in FreeFrames : f \notin DOMAIN replacer_.node_store_) =>
    LRUKReplacer_Size(replacer_)
      = Cardinality({f \in MappedFrames : pages_[f].pin_count_ = 0})

\* The evictable nodes of largest weighted K-back distance.
FarthestNodes(r) ==
  {f \in EvictableNodes(r) :
     \A g \in EvictableNodes(r) : WeightedDistance(r, g) <= WeightedDistance(r, f)}

\* C27: when all evictable nodes have at least K accesses and two or more
\* share the largest weighted K-back distance, Evict returns the one of
\* smallest frame id, whatever the order in which the node store is gone
\* through.
C27_TieBrokenBySmallestFrame ==
  [][(/\ call'.op = "Evict"
      /\ EvictableNodes(replacer_) # {}
      /\ ShortHistoryNodes(replacer_) = {}) =>
       /\ call'.ret = "true"
       /\ \A g \in FarthestNodes(replacer_) : call'.frame <= g
    ]_vars

\* C27 without the tie (not a claim of its own): Evict returns one of the
\* nodes of largest distance.
C27_VictimIsFarthest ==
  [][(/\ call'.op = "Evict"
      /\ EvictableNodes(replacer_) # {}
      /\ ShortHistoryNodes(replacer_) = {}) =>
       call'.frame \in FarthestNodes(replacer_)
    ]_vars

\* Every guard object has been constructed and destroyed.
AllGuardsDestroyed == \A g \in GuardIds : guards[g].life = "destroyed"

\* C26: move-assignment never leaks a pin or a latch: the frame the target
\* owned is released, so that after all guards are destroyed every page's
\* pin count is back to what it was before the guards were created (0),
\* and no latch is held.
C26_NoLeakAfterGuards ==
  AllGuardsDestroyed =>
    \A f \in Frames : pages_[f].pin_count_ = 0 /\ latch[f] = FreeLatch

\* C26 at the assignment itself (not a claim of its own): a target that
\* owns a frame has it unpinned by the assignment.
C26_AssignReleasesTarget ==
  [][(/\ guard_call'.op = "MoveAssign"
      /\ ~BasicPageGuard_IsEmpty(guards[guard_call'.guard])) =>
       pages_'[FrameOf(guards[guard_call'.guard].page_)].pin_count_
         < pages_[FrameOf(guards[guard_call'.guard].page_)].pin_count_]_vars


\* The threads that hold latch_, the threads blocked on a page latch and
\* the threads blocked on a future.
WaitsForPageLatch(t) ==
  LET c == threads.callers[t] IN
  /\ c.pc = "Latch"
  /\ ~(IF c.kind = "Read" THEN CanRLatch(c.frame) ELSE CanWLatch(c.frame))

WaitsForDisk(t) ==
  /\ threads.callers[t].pc = "FutureGet"
  /\ ~Fulfilled(threads.callers[t].promise)

\* C28 (safety part): a thread at a page latch does not hold the pool mutex,
\* and a thread waiting for its disk request under the mutex holds no page
\* latch.
C28_LatchOrder ==
  \A t \in Callers :
    /\ threads.callers[t].pc = "Latch" => threads.latch_ # t
    /\ threads.callers[t].pc = "FutureGet" =>
          threads.latch_ = t /\ ~threads.callers[t].latched

\* C28: no deadlock.  Among threads that call FetchPage, take the page's
\* read or write latch and drop the guard (unlatch, then UnpinPage), threads
\* that call NewPage, FlushPage or DeletePage, and the scheduler's workers,
\* every call that was started eventually returns; the pool mutex is never
\* held by a thread at a page latch, and a thread waiting for disk I/O
\* under the mutex holds no page latch.
C28_EveryCallReturns ==
  /\ [] C28_LatchOrder
  /\ \A t \in Callers :
        (threads.callers[t].pc # "Idle") ~> (threads.callers[t].pc = "Done")

\* Both threads have returned from all their calls, after one of them waited
\* for the page latch the other held and one waited for a disk request that
\* a worker then served.
C28_Witness ==
  /\ \A t \in Callers : threads.callers[t].pc = "Done"
  /\ \E t \in Callers : threads.callers[t].promise # 0
  /\ \E t \in Callers : threads.callers[t].op = "UnpinPage"
  /\ \E id \in DOMAIN promises : Fulfilled(id)

C28_SomeoneWaitsForLatch == \E t \in Callers : WaitsForPageLatch(t)

C28_SomeoneWaitsForDiskWhileMutexWanted ==
  \E t, u \in Callers : WaitsForDisk(t) /\ threads.callers[u].pc = "Lock"

====
